---- MODULE Spec2Model ----
(***************************************************************************)
(* Response-envelope normalisation of mcp-kr-legislation:                  *)
(*   utils/response_parser.py   extract_items_from_response,               *)
(*                              normalize_response                         *)
(*   utils/response_cleaner.py  clean_html_tags, clean_dict_values, ...    *)
(*   tools/law_tools.py         _format_search_results                     *)
(*                                                                         *)
(* Decoded JSON values are tagged records [t, v]:                          *)
(*   null  v = <<>>         str   v = sequence of characters               *)
(*   int   v = integer      list  v = sequence of values                   *)
(*   dict  v = sequence of <<key, value>> pairs, keys distinct, in         *)
(*         insertion order (a Python dict)                                 *)
(* Dictionary keys and targets are atomic strings.  The lexer accepts      *)
(* ASCII only inside strings, so a Korean key is written K_<gloss>; the    *)
(* Korean original stands in the comment where the key is introduced.      *)
(***************************************************************************)
EXTENDS Integers, Sequences, FiniteSets, TLC

\* ------------------------------------------------------------------------
\* Bounds of the checked input space
\* ------------------------------------------------------------------------
MaxFieldLen == 2      \* longest string stored in a record field
MaxKeys == 2          \* most top-level keys of a multi-key response
\* the longest list of items or of history entries in a formatter response
MaxItems == 2
MaxTextLen == 5       \* longest string handed to clean_html_tags directly
MaxDepth == 3         \* deepest nesting of a record handed to the sanitizer
MaxParams == 2        \* most query parameters a caller hands to the URL builder
MaxClock == 8         \* the last day the clock reaches
\* the upstream answers one call of search_law is followed through; the
\* last one answers every later request
MaxAnswers == 4

\* ------------------------------------------------------------------------
\* Python values
\* ------------------------------------------------------------------------
None == [t |-> "null", v |-> <<>>]
Str(s) == [t |-> "str", v |-> s]
Num(n) == [t |-> "int", v |-> n]
List(s) == [t |-> "list", v |-> s]
Dict(p) == [t |-> "dict", v |-> p]
Tuple(s) == [t |-> "tuple", v |-> s]

IsStr(x) == x.t = "str"
IsList(x) == x.t = "list"
IsDict(x) == x.t = "dict"
IsNone(x) == x.t = "null"

\* bool(x)
Truthy(x) ==
  CASE x.t = "null" -> FALSE
    [] x.t = "int" -> x.v # 0
    [] OTHER -> Len(x.v) > 0

\* k in d
HasKey(d, k) == \E i \in 1..Len(d.v) : d.v[i][1] = k
\* d[k]
Item(d, k) == d.v[CHOOSE i \in 1..Len(d.v) : d.v[i][1] = k][2]
\* d.get(k, default)
DictGet(d, k, default) == IF HasKey(d, k) THEN Item(d, k) ELSE default
\* list(d.keys())
Keys(d) == [i \in 1..Len(d.v) |-> d.v[i][1]]

\* ------------------------------------------------------------------------
\* response_cleaner.py
\* ------------------------------------------------------------------------
\* Characters of the modelled strings.  "x" is any letter that is neither
\* markup nor part of an entity name the model decodes.
Alphabet == {"x", " ", "<", ">", "&", "l", "t", ";"}
Whitespace == {" "}

\* re.sub(r'<[^>]+>', '', s): a tag runs from a '<' to the first '>' after
\* it with at least one character between them.
RECURSIVE StripTags(_)
StripTags(s) ==
  IF s = <<>> THEN <<>>
  ELSE IF s[1] = "<" /\ \E j \in 3..Len(s) : s[j] = ">" /\ \A k \in 2..(j-1) : s[k] # ">"
       THEN LET j == CHOOSE j \in 3..Len(s) : s[j] = ">" /\ \A k \in 2..(j-1) : s[k] # ">"
            IN StripTags(SubSeq(s, j + 1, Len(s)))
       ELSE <<s[1]>> \o StripTags(Tail(s))

\* html.unescape(s), on the entities the alphabet can spell: &lt and &lt;
\* decode to '<' (the name may run on: "&ltx" is "<x"), &ll; decodes to the
\* much-less-than sign, every other '&' stays.
RECURSIVE Unescape(_)
Unescape(s) ==
  IF s = <<>> THEN <<>>
  ELSE IF s[1] # "&" THEN <<s[1]>> \o Unescape(Tail(s))
  ELSE IF Len(s) >= 3 /\ s[2] = "l" /\ s[3] = "t"
       THEN IF Len(s) >= 4 /\ s[4] = ";"
            THEN <<"<">> \o Unescape(SubSeq(s, 5, Len(s)))
            ELSE <<"<">> \o Unescape(SubSeq(s, 4, Len(s)))
  ELSE IF Len(s) >= 4 /\ s[2] = "l" /\ s[3] = "l" /\ s[4] = ";"
       THEN <<"LL">> \o Unescape(SubSeq(s, 5, Len(s)))
  ELSE <<"&">> \o Unescape(Tail(s))

\* re.sub(r'\s+', ' ', s)
RECURSIVE CollapseSpaces(_)
CollapseSpaces(s) ==
  IF s = <<>> THEN <<>>
  ELSE IF s[1] \in Whitespace
       THEN IF Len(s) >= 2 /\ s[2] \in Whitespace
            THEN CollapseSpaces(Tail(s))
            ELSE <<" ">> \o CollapseSpaces(Tail(s))
       ELSE <<s[1]>> \o CollapseSpaces(Tail(s))

\* s.strip()
RECURSIVE LStrip(_)
LStrip(s) == IF s # <<>> /\ s[1] \in Whitespace THEN LStrip(Tail(s)) ELSE s
RECURSIVE RStrip(_)
RStrip(s) ==
  IF s # <<>> /\ s[Len(s)] \in Whitespace THEN RStrip(SubSeq(s, 1, Len(s) - 1)) ELSE s
Strip(s) == LStrip(RStrip(s))

clean_html_tags(text) ==
  IF ~Truthy(text) \/ ~IsStr(text)
  THEN (IF Truthy(text) THEN text ELSE Str(<<>>))
  ELSE Str(Strip(CollapseSpaces(Unescape(StripTags(text.v)))))

\* clean_dict_values / clean_list_values call each other; fields_to_clean is
\* a set of keys, the empty set standing for None (both are falsy).
RECURSIVE clean_dict_values(_, _), clean_list_values(_, _)
clean_dict_values(data, fields_to_clean) ==
  IF ~Truthy(data) \/ ~IsDict(data)
  THEN (IF Truthy(data) THEN data ELSE Dict(<<>>))
  ELSE Dict([i \in 1..Len(data.v) |->
         LET key == data.v[i][1]
             value == data.v[i][2]
         IN IF fields_to_clean # {} /\ key \notin fields_to_clean THEN <<key, value>>
            ELSE IF IsStr(value) THEN <<key, clean_html_tags(value)>>
            ELSE IF IsDict(value) THEN <<key, clean_dict_values(value, fields_to_clean)>>
            ELSE IF IsList(value) THEN <<key, clean_list_values(value, fields_to_clean)>>
            ELSE <<key, value>>])
clean_list_values(data, fields_to_clean) ==
  IF ~Truthy(data) \/ ~IsList(data)
  THEN (IF Truthy(data) THEN data ELSE List(<<>>))
  ELSE List([i \in 1..Len(data.v) |->
         LET item == data.v[i]
         IN IF IsDict(item) THEN clean_dict_values(item, fields_to_clean)
            ELSE IF IsStr(item) THEN clean_html_tags(item)
            ELSE IF IsList(item) THEN clean_list_values(item, fields_to_clean)
            ELSE item])

\* the allow-list of clean_search_result:
\*   법령명 법령명한글 법령명_한글 법령명_영문 사건명 안건명 결정문명 행정규칙명
\*   자치법규명 조약명 용어명 해석명 조문내용 조문제목 판결요지 결정요지 이유
\*   참조조문 참조판례
SearchResultFields ==
  {"K_lawName", "K_lawNameHangul", "K_lawName_Hangul", "K_lawName_English",
   "K_caseName", "K_agendaName", "K_decisionDocName", "K_admRuleName",
   "K_ordinanceName", "K_treatyName", "K_termName", "K_interpretationName",
   "K_articleContent", "K_articleTitle", "K_judgmentSummary",
   "K_decisionSummary", "K_reason", "K_refArticles", "K_refPrecedents"}

clean_search_result(result) == clean_dict_values(result, SearchResultFields)

\* ------------------------------------------------------------------------
\* response_parser.py
\* ------------------------------------------------------------------------
\* <<target, outer_key, inner_key>> in the order of the dict literal.
\* K_legalTerm is 법령용어.
RESPONSE_STRUCTURE_MAP ==
  << <<"law", "LawSearch", "law">>,
     <<"elaw", "LawSearch", "law">>,
     <<"eflaw", "LawSearch", "law">>,
     <<"prec", "PrecSearch", "prec">>,
     <<"detc", "DetcSearch", "Detc">>,
     <<"expc", "Expc", "expc">>,
     <<"decc", "Decc", "decc">>,
     <<"ppc", "Ppc", "ppc">>,
     <<"fsc", "Fsc", "fsc">>,
     <<"ftc", "Ftc", "ftc">>,
     <<"acr", "Acr", "acr">>,
     <<"nlrc", "Nlrc", "nlrc">>,
     <<"ecc", "Ecc", "ecc">>,
     <<"sfc", "Sfc", "sfc">>,
     <<"nhrck", "Nhrck", "nhrck">>,
     <<"kcc", "Kcc", "kcc">>,
     <<"iaciac", "Iaciac", "iaciac">>,
     <<"oclt", "Oclt", "oclt">>,
     <<"eiac", "Eiac", "eiac">>,
     <<"admrul", "AdmRulSearch", "admrul">>,
     <<"ordin", "OrdinSearch", "law">>,
     <<"ordinfd", "OrdinSearch", "ordinfd">>,
     <<"trty", "TrtySearch", "Trty">>,
     <<"lstrm", "LsTrmSearch", "lstrm">>,
     <<"lstrmAI", "lstrmAISearch", "K_legalTerm">>,
     <<"moefCgmExpc", "CgmExpc", "cgmExpc">>,
     <<"molitCgmExpc", "CgmExpc", "cgmExpc">>,
     <<"moelCgmExpc", "CgmExpc", "cgmExpc">>,
     <<"mofCgmExpc", "CgmExpc", "cgmExpc">>,
     <<"moisCgmExpc", "CgmExpc", "cgmExpc">>,
     <<"meCgmExpc", "CgmExpc", "cgmExpc">>,
     <<"ntsCgmExpc", "CgmExpc", "cgmExpc">>,
     <<"kcsCgmExpc", "CgmExpc", "cgmExpc">>,
     <<"ttSpecialDecc", "DeccSearch", "Decc">>,
     <<"kmstSpecialDecc", "DeccSearch", "Decc">> >>

MapIndex == 1..Len(RESPONSE_STRUCTURE_MAP)
MapTargets == {RESPONSE_STRUCTURE_MAP[i][1] : i \in MapIndex}
\* RESPONSE_STRUCTURE_MAP[target]
MapEntry(target) ==
  RESPONSE_STRUCTURE_MAP[CHOOSE i \in MapIndex : RESPONSE_STRUCTURE_MAP[i][1] = target]

\* target: Optional[str]; NoTarget is Python's None
NoTarget == "None"

\* the two messages the resolver makes up itself: 응답 없음, 데이터 구조 파싱 실패
MsgNoResponse == Str(<<"[no response]">>)
MsgParseFailure == Str(<<"[data structure parse failure]">>)

Triple(items, count, error) == [items |-> items, count |-> count, error |-> error]

\* the inner value looked up under the outer key's name
EnvelopeItems_WrongKey(result, outer_key, inner_key) ==
  IF ~HasKey(result, outer_key) THEN None
  ELSE LET inner == Item(result, outer_key)
       IN IF ~IsDict(inner) THEN None
          ELSE LET items == DictGet(inner, outer_key, List(<<>>))
               IN IF IsDict(items) THEN List(<<items>>)
                  ELSE IF IsList(items) THEN items
                  ELSE None
\* a bare mapping is not wrapped into a sequence of one
EnvelopeItems_NoWrap(result, outer_key, inner_key) ==
  IF ~HasKey(result, outer_key) THEN None
  ELSE LET inner == Item(result, outer_key)
       IN IF ~IsDict(inner) THEN None
          ELSE LET items == DictGet(inner, inner_key, List(<<>>))
               IN IF IsList(items) THEN items ELSE None
\* lines 98-104 and 109-114: the list an envelope entry yields; None when
\* the outer key is missing, its value is no mapping, or the inner value is
\* neither a mapping nor a sequence
EnvelopeItems(result, outer_key, inner_key) ==
  IF ~HasKey(result, outer_key) THEN None
  ELSE LET inner == Item(result, outer_key)
       IN IF ~IsDict(inner) THEN None
          ELSE LET items == DictGet(inner, inner_key, List(<<>>))
               IN IF IsDict(items) THEN List(<<items>>)
                  ELSE IF IsList(items) THEN items
                  ELSE None

\* the target-specific step returns only a non-empty list
TargetStepReturns_NonEmpty(result, target) ==
  /\ target # NoTarget
  /\ target \in MapTargets
  /\ IsList(EnvelopeItems(result, MapEntry(target)[2], MapEntry(target)[3]))
  /\ Truthy(EnvelopeItems(result, MapEntry(target)[2], MapEntry(target)[3]))
\* lines 96-105: the target-specific step returns whenever the entry yields
\* a list, an empty one too
TargetStepReturns(result, target) ==
  /\ target # NoTarget
  /\ target \in MapTargets
  /\ IsList(EnvelopeItems(result, MapEntry(target)[2], MapEntry(target)[3]))

\* the scan stops at the first list, empty or not
ScanHit_AnyList(result, i) ==
  IsList(EnvelopeItems(result, RESPONSE_STRUCTURE_MAP[i][2], RESPONSE_STRUCTURE_MAP[i][3]))
\* lines 108-116: the scan of all entries returns the first non-empty list
ScanHit(result, i) ==
  LET items == EnvelopeItems(result, RESPONSE_STRUCTURE_MAP[i][2], RESPONSE_STRUCTURE_MAP[i][3])
  IN IsList(items) /\ Truthy(items)

\* the generic keys tried in another order
GenericKeys_Reordered == <<"items", "K_law", "Law", "data", "result">>
\* line 119; K_law is 법령
GenericKeys == <<"K_law", "Law", "items", "data", "result">>
GenericHit(result, i) ==
  /\ HasKey(result, GenericKeys[i])
  /\ (IsList(Item(result, GenericKeys[i])) \/ IsDict(Item(result, GenericKeys[i])))

\* the message is honoured only when "Law" is the only key
LawError_OnlyKey(result) ==
  HasKey(result, "Law") /\ IsStr(Item(result, "Law")) /\ Len(result.v) = 1
\* line 92: a string under "Law" is upstream's error message
LawError(result) == HasKey(result, "Law") /\ IsStr(Item(result, "Law"))

\* the count taken from the upstream totalCnt where the response has one
extract_items_from_response_UpstreamTotal(result, target) ==
  IF ~Truthy(result) THEN Triple(<<>>, 0, MsgNoResponse)
  ELSE IF LawError(result)
       THEN Triple(<<>>, 0, Item(result, "Law"))
  ELSE IF TargetStepReturns(result, target)
       THEN LET items == EnvelopeItems(result, MapEntry(target)[2], MapEntry(target)[3])
                total == DictGet(Item(result, MapEntry(target)[2]), "totalCnt", Num(Len(items.v)))
            IN Triple(items.v, IF total.t = "int" THEN total.v ELSE Len(items.v), None)
  ELSE IF \E i \in MapIndex : ScanHit(result, i)
       THEN LET i == CHOOSE i \in MapIndex : ScanHit(result, i) /\ \A j \in 1..(i-1) : ~ScanHit(result, j)
                items == EnvelopeItems(result, RESPONSE_STRUCTURE_MAP[i][2], RESPONSE_STRUCTURE_MAP[i][3])
            IN Triple(items.v, Len(items.v), None)
  ELSE IF \E i \in 1..Len(GenericKeys) : GenericHit(result, i)
       THEN LET i == CHOOSE i \in 1..Len(GenericKeys) : GenericHit(result, i) /\ \A j \in 1..(i-1) : ~GenericHit(result, j)
                value == Item(result, GenericKeys[i])
            IN IF IsList(value) THEN Triple(value.v, Len(value.v), None)
               ELSE Triple(<<value>>, 1, None)
  ELSE Triple(<<>>, 0, MsgParseFailure)
extract_items_from_response(result, target) ==
  IF ~Truthy(result) THEN Triple(<<>>, 0, MsgNoResponse)
  ELSE IF LawError(result)
       THEN Triple(<<>>, 0, Item(result, "Law"))
  ELSE IF TargetStepReturns(result, target)
       THEN LET items == EnvelopeItems(result, MapEntry(target)[2], MapEntry(target)[3])
            IN Triple(items.v, Len(items.v), None)
  ELSE IF \E i \in MapIndex : ScanHit(result, i)
       THEN LET i == CHOOSE i \in MapIndex : ScanHit(result, i) /\ \A j \in 1..(i-1) : ~ScanHit(result, j)
                items == EnvelopeItems(result, RESPONSE_STRUCTURE_MAP[i][2], RESPONSE_STRUCTURE_MAP[i][3])
            IN Triple(items.v, Len(items.v), None)
  ELSE IF \E i \in 1..Len(GenericKeys) : GenericHit(result, i)
       THEN LET i == CHOOSE i \in 1..Len(GenericKeys) : GenericHit(result, i) /\ \A j \in 1..(i-1) : ~GenericHit(result, j)
                value == Item(result, GenericKeys[i])
            IN IF IsList(value) THEN Triple(value.v, Len(value.v), None)
               ELSE Triple(<<value>>, 1, None)
  ELSE Triple(<<>>, 0, MsgParseFailure)

\* success derived from the absence of an error instead of the count
normalize_response_SuccessByError(result, target) ==
  LET e == extract_items_from_response(result, target)
      items == IF e.items # <<>>
               THEN [i \in 1..Len(e.items) |-> clean_search_result(e.items[i])]
               ELSE e.items
  IN [success |-> e.error = None,
      items |-> items,
      total_count |-> e.count,
      error |-> e.error,
      raw_keys |-> IF Truthy(result) THEN Keys(result) ELSE <<>>]
\* normalize_response(result, target, clean_html=True)
normalize_response(result, target) ==
  LET e == extract_items_from_response(result, target)
      items == IF e.items # <<>>
               THEN [i \in 1..Len(e.items) |-> clean_search_result(e.items[i])]
               ELSE e.items
  IN [success |-> e.count > 0,
      items |-> items,
      total_count |-> e.count,
      error |-> e.error,
      raw_keys |-> IF Truthy(result) THEN Keys(result) ELSE <<>>]

\* ------------------------------------------------------------------------
\* law_tools.py: _format_search_results
\* ------------------------------------------------------------------------
\* The text returned is a sequence of segments [kind, a, b]: kind names the
\* template fragment, a and b are the character sequences embedded in it.
Seg(kind, a, b) == [kind |-> kind, a |-> a, b |-> b]

\* Outcome of a step of the function body: exc names the exception raised
\* ("" for none), ret tells that the body returned at this step, val is the
\* value computed or returned.
Ok(val) == [exc |-> "", ret |-> FALSE, val |-> val]
Return(val) == [exc |-> "", ret |-> TRUE, val |-> val]
Raise(e) == [exc |-> e, ret |-> FALSE, val |-> None]
\* the rest of the body after a step: skipped when the step raised or
\* returned, else run with the value the step computed
Then(step, Rest(_)) == IF step.exc # "" \/ step.ret THEN step ELSE Rest(step.val)

\* str(x)
PyStr(x) ==
  CASE IsStr(x) -> x.v
    [] x.t = "int" -> <<ToString(x.v)>>
    [] IsNone(x) -> <<"None">>
    [] IsList(x) -> <<"[list]">>
    [] OTHER -> <<"{dict}">>

\* x.get(k, default) on any value: only a dict has .get
GetOrRaise(x, k, default) ==
  IF IsDict(x) THEN Ok(DictGet(x, k, default)) ELSE Raise("AttributeError")

\* lines 605-616, 637-648, 656-669: the targets with a root key and a data
\* key of their own, <<target, root key, data key>>
SpecialRoots ==
  { <<"oldAndNew", "OldAndNewLawSearch", "oldAndNew">>,
    <<"thdCmp", "thdCmpLawSearch", "thdCmp">>,
    <<"licbyl", "licBylSearch", "licbyl">>,
    <<"trty", "TrtySearch", "Trty">>,
    <<"ordinfd", "ordinFdList", "ordinFd">>,
    <<"ordin", "OrdinSearch", "law">>,
    <<"admrul", "AdmRulSearch", "admrul">>,
    <<"lnkLsOrd", "OrdinSearch", "law">>,
    <<"prec", "PrecSearch", "prec">>,
    <<"expc", "Expc", "expc">>,
    <<"decc", "Decc", "decc">> }
SpecialRootOf(target) == CHOOSE e \in SpecialRoots : e[1] = target

\* line 677: the targets the LawSearch branch leaves alone
NotLawSearchTargets ==
  {"thdCmp", "licbyl", "trty", "lsRlt", "ordinfd", "ordin", "admrul",
   "admrulOldAndNew", "lnkLsOrd", "prec", "expc", "decc", "couseLs"}
\* lines 679-702: LawSearch targets whose data key is 'law'
LawKeyTargets == {"elaw", "eflaw", "lsHstInf", "lsHistory", "lnkLs", "lsAbrv", "delHst"}
\* lines 704 and 714: targets whose data may come as a string
CommitteeTargets ==
  {"ppc", "fsc", "ftc", "acr", "nlrc", "ecc", "sfc", "nhrck", "kcc", "iaciac", "oclt", "eiac"}

\* lines 677-725
LawSearchData(data, target) ==
  Then(GetOrRaise(Item(data, "LawSearch"), IF target \in LawKeyTargets THEN "law" ELSE target,
                  List(<<>>)),
       LAMBDA target_data :
         IF target \in CommitteeTargets \cup {"detc"} /\ IsStr(target_data)
         THEN Ok(List(<<>>))
         ELSE Ok(target_data))

\* lines 617-629: lsRltSearch holds 법령 (K_law), which holds 관련법령
\* (K_relatedLaws)
RelatedLawData(data) ==
  Then(GetOrRaise(Item(data, "lsRltSearch"), "K_law", Dict(<<>>)),
       LAMBDA law_item :
         IF IsDict(law_item) /\ Truthy(law_item)
              /\ IsList(DictGet(law_item, "K_relatedLaws", List(<<>>)))
         THEN Ok(DictGet(law_item, "K_relatedLaws", List(<<>>)))
         ELSE Ok(List(<<>>)))

\* lines 601-755: target_data as the dispatch over root keys leaves it;
\* 맞춤형분류 is K_customClass, 조문 is K_articles.  The history formatter
\* is handed in as the text it returns for this response.
TargetData(data, target, history_text) ==
  IF ~IsDict(data) THEN Raise("TypeError")
  ELSE IF (\E e \in SpecialRoots : e[1] = target) /\ HasKey(data, SpecialRootOf(target)[2])
       THEN GetOrRaise(Item(data, SpecialRootOf(target)[2]), SpecialRootOf(target)[3], List(<<>>))
  ELSE IF target = "lsRlt" /\ HasKey(data, "lsRltSearch") THEN RelatedLawData(data)
  ELSE IF target = "lsRlt" /\ HasKey(data, "Law") THEN Ok(List(<<>>))
  ELSE IF target = "admrulOldAndNew" /\ HasKey(data, "OldAndNewLawSearch")
       THEN Then(GetOrRaise(Item(data, "OldAndNewLawSearch"), "oldAndNew", List(<<>>)),
                 LAMBDA target_data : IF IsList(target_data) THEN Ok(target_data) ELSE Ok(List(<<>>)))
  ELSE IF target = "couseLs" /\ HasKey(data, "K_customClass")
       THEN Then(GetOrRaise(Item(data, "K_customClass"), "K_law", Dict(<<>>)),
                 LAMBDA law_data : IF Truthy(law_data) THEN Ok(List(<<law_data>>)) ELSE Ok(List(<<>>)))
  ELSE IF HasKey(data, "LawSearch") /\ target \notin NotLawSearchTargets
       THEN LawSearchData(data, target)
  ELSE IF HasKey(data, "LawService")
       THEN IF target = "lsJoHstInf" THEN Return(history_text)
            ELSE Then(GetOrRaise(Item(data, "LawService"), target, List(<<>>)),
                      LAMBDA target_data :
                        IF IsList(target_data) THEN Ok(target_data)
                        ELSE IF Truthy(target_data) THEN Ok(List(<<target_data>>))
                        ELSE Ok(List(<<>>)))
  ELSE IF HasKey(data, "K_law")
       THEN (IF ~IsDict(Item(data, "K_law")) THEN Ok(Item(data, "K_law"))
             ELSE IF HasKey(Item(data, "K_law"), "K_articles")
                  THEN Ok(Item(Item(data, "K_law"), "K_articles"))
             ELSE Ok(List(<<Item(data, "K_law")>>)))
  ELSE IF HasKey(data, target) THEN Ok(Item(data, target))
  ELSE IF Len(data.v) = 1 THEN Ok(data.v[1][2])
  ELSE Ok(List(<<>>))

\* lines 757-772: anything but a list or a mapping becomes the empty list
AsList(target_data) ==
  IF IsList(target_data) THEN target_data
  ELSE IF IsDict(target_data) THEN List(<<target_data>>)
  ELSE List(<<>>)

\* lines 774-781: what is returned for an empty target_data.  The text of
\* line 779 reads "parse failure" (검색 결과 파싱 실패) and lists the keys of
\* LawSearch, the text of line 781 reads "no search results" (검색 결과가
\* 없습니다).
EmptyResultText(data, target, search_query) ==
  IF HasKey(data, "LawSearch")
  THEN IF ~IsDict(Item(data, "LawSearch")) THEN Raise("AttributeError")
       ELSE Return(<<Seg("parse_failure", search_query,
                       PyStr(DictGet(Item(data, "LawSearch"), "totalCnt", Num(0)))),
                     Seg("available_keys", Keys(Item(data, "LawSearch")), <<target>>)>>)
  ELSE Return(<<Seg("no_results", search_query, <<>>)>>)

\* str.lower() and the code points the sort compares
Lower(s) == [i \in 1..Len(s) |-> IF s[i] = "X" THEN "x" ELSE s[i]]
CodePoint(c) ==
  CASE c = " " -> 32 [] c = "&" -> 38 [] c = "," -> 44 [] c = ";" -> 59
    [] c = "0" -> 48 [] c = "1" -> 49 [] c = "2" -> 50 [] c = "9" -> 57
    [] c = "<" -> 60 [] c = ">" -> 62 [] c = "X" -> 88 [] c = "l" -> 108
    [] c = "t" -> 116 [] c = "x" -> 120 [] OTHER -> 8810
\* a < b for two str
RECURSIVE StrLess(_, _)
StrLess(a, b) ==
  IF b = <<>> THEN FALSE
  ELSE IF a = <<>> THEN TRUE
  ELSE IF a[1] = b[1] THEN StrLess(Tail(a), Tail(b))
  ELSE CodePoint(a[1]) < CodePoint(b[1])
\* s.replace(" ", "")
RemoveSpaces(s) == SelectSeq(s, LAMBDA c : c # " ")
\* s.startswith(p), p in s
StartsWith(s, p) == Len(p) <= Len(s) /\ SubSeq(s, 1, Len(p)) = p
Contains(s, p) == \E i \in 0..(Len(s) - Len(p)) : SubSeq(s, i + 1, i + Len(p)) = p

\* a or b or c or ''  over item.get(k, '')
FirstTruthy(item, keys) ==
  IF \E i \in 1..Len(keys) : Truthy(DictGet(item, keys[i], Str(<<>>)))
  THEN DictGet(item, keys[CHOOSE i \in 1..Len(keys) :
                           /\ Truthy(DictGet(item, keys[i], Str(<<>>)))
                           /\ \A j \in 1..(i - 1) : ~Truthy(DictGet(item, keys[j], Str(<<>>)))],
               Str(<<>>))
  ELSE Str(<<>>)

\* lines 792-810: sort_key(item) = (rank, title); 법령명한글, 법령명, 법령명영문
\* are K_lawNameHangul, K_lawName, K_lawNameEnglish
sort_key(item, search_query) ==
  LET Ranked(title, title_normalized, query_normalized) ==
        IF title_normalized = query_normalized THEN Ok(<<0, title>>)
        ELSE IF StartsWith(title_normalized, query_normalized) THEN Ok(<<1, title>>)
        ELSE IF Contains(title_normalized, query_normalized) THEN Ok(<<2, title>>)
        ELSE Ok(<<3, title>>)
      Keyed(title) ==
        IF ~IsStr(title) THEN Raise("AttributeError")
        ELSE Ranked(title.v, StripTags(Lower(RemoveSpaces(title.v))),
                    Lower(RemoveSpaces(search_query)))
  IN IF ~IsDict(item) THEN Ok(<<3, <<>>>>)
     ELSE Keyed(FirstTruthy(item, <<"K_lawNameHangul", "K_lawName", "K_lawNameEnglish">>))
\* k1 < k2 for two sort keys
KeyLess(k1, k2) == k1[1] < k2[1] \/ (k1[1] = k2[1] /\ StrLess(k1[2], k2[2]))

\* line 812: sorted(target_data, key=sort_key), a stable sort
RECURSIVE InsertSorted(_, _, _)
InsertSorted(sorted, item, q) ==
  IF sorted = <<>> THEN <<item>>
  ELSE IF KeyLess(sort_key(item, q).val, sort_key(sorted[Len(sorted)], q).val)
       THEN InsertSorted(SubSeq(sorted, 1, Len(sorted) - 1), item, q) \o <<sorted[Len(sorted)]>>
       ELSE sorted \o <<item>>
RECURSIVE SortedItems(_, _)
SortedItems(items, q) ==
  IF items = <<>> THEN <<>>
  ELSE InsertSorted(SortedItems(SubSeq(items, 1, Len(items) - 1), q), items[Len(items)], q)
\* lines 789-812
SortForLawTargets(items, target, search_query) ==
  IF target \notin {"law", "elaw", "eflaw"} THEN Ok(items)
  ELSE IF \E i \in 1..Len(items) : sort_key(items[i], search_query).exc # ""
       THEN Raise("AttributeError")
  ELSE Ok(SortedItems(items, search_query))

\* lines 827-844: title_keys, in order.  법령명한글 법령명 제목 title 명칭 name
\* 현행법령명 법령명국문 국문법령명 lawNm lawName 법령명전체 법령제목 lawTitle
\* 신구법명 법령약칭명 조약명한글 조약명 별표명 서식명 별표서식명 삼단비교법령명
\* 3단비교법령명 관련법령명 기준법령명 분류명 행정규칙명 신구법명 자치법규명 안건명
\* 사건명 재판사건명
title_keys ==
  <<"K_lawNameHangul", "K_lawName", "K_title", "title", "K_designation", "name",
    "K_currentLawName", "K_lawNameKorean", "K_koreanLawName", "lawNm", "lawName",
    "K_lawNameFull", "K_lawTitle", "lawTitle",
    "K_oldNewLawName",
    "K_lawAbbrName",
    "K_treatyNameHangul", "K_treatyName",
    "K_tableName", "K_formName", "K_tableFormName",
    "K_threeWayLawName", "K_3wayLawName",
    "K_relatedLawName", "K_baseLawName",
    "K_className",
    "K_admRuleName",
    "K_oldNewLawName",
    "K_ordinanceName",
    "K_agendaName",
    "K_caseName",
    "K_trialCaseName">>

\* lines 889-904: detail_fields, <<display name, candidate keys>> in order.
\* 법령ID 법령일련번호 신구법일련번호 행정규칙일련번호 조약일련번호 자치법규일련번호
\* 법령약칭명 공포일자 시행일자 삭제일자 구분명 소관부처명 법령구분명 제개정구분명
detail_fields ==
  << <<"K_lawId", <<"K_lawId", "ID", "lawId", "mstSeq">> >>,
     <<"K_lawSerialNo", <<"K_lawSerialNo", "MST", "mst", "lawMst", "K_lawMST", "K_serialNo">> >>,
     <<"K_oldNewSerialNo", <<"K_oldNewSerialNo", "K_oldNewMST">> >>,
     <<"K_admRuleSerialNo", <<"K_admRuleSerialNo", "K_admRuleMST">> >>,
     <<"K_treatySerialNo", <<"K_treatySerialNo", "K_treatyMST">> >>,
     <<"K_ordinanceSerialNo", <<"K_ordinanceSerialNo", "K_ordinanceMST">> >>,
     <<"K_lawAbbrName", <<"K_lawAbbrName", "K_abbrName", "abbreviation">> >>,
     <<"K_promulgationDate", <<"K_promulgationDate", "date", "announce_date",
                               "K_promulgationDay", "promulgateDate", "K_promulgationYmd">> >>,
     <<"K_effectiveDate", <<"K_effectiveDate", "ef_date", "effective_date",
                            "K_effectiveDay", "enforceDate", "K_effectiveYmd">> >>,
     <<"K_deletionDate", <<"K_deletionDate">> >>,
     <<"K_kindName", <<"K_kindName">> >>,
     <<"K_ministryName", <<"K_ministryName", "ministry", "department", "K_ministry",
                           "ministryNm", "K_competentMinistry">> >>,
     <<"K_lawKindName", <<"K_lawKindName", "type", "law_type", "K_lawKind", "lawType", "K_lawType">> >>,
     <<"K_revisionKindName", <<"K_revisionKindName", "revision", "K_revisionKind",
                               "revisionType", "K_amendKind">> >> >>
\* lines 907-914: 인용조문수 위임조문수 상위법령명 하위법령명 비교일자
thdCmp_detail_fields ==
  << <<"K_citedArticleCount", <<"K_citedArticleCount", "K_citedArticles", "citationCount", "citation">> >>,
     <<"K_delegatedArticleCount", <<"K_delegatedArticleCount", "K_delegatedArticles",
                                    "delegationCount", "delegation">> >>,
     <<"K_upperLawName", <<"K_upperLawName", "K_upperLaw", "upperLaw", "parentLaw">> >>,
     <<"K_lowerLawName", <<"K_lowerLawName", "K_lowerLaw", "lowerLaw", "childLaw">> >>,
     <<"K_comparisonDate", <<"K_comparisonDate", "K_comparisonDay", "comparisonDate", "compareDate">> >> >>

\* line 879: the keys k with '법령' in str(k) or 'title' in str(k).lower(),
\* among the keys the model knows
LooksLikeTitleKey ==
  {"K_lawNameHangul", "K_lawName", "K_currentLawName", "K_lawNameKorean", "K_koreanLawName",
   "K_lawNameFull", "K_lawTitle", "K_lawAbbrName", "K_threeWayLawName", "K_3wayLawName",
   "K_relatedLawName", "K_baseLawName", "K_lawId", "K_lawSerialNo", "K_lawMST",
   "K_lawKindName", "K_lawKind", "K_lawType", "K_lawNameEnglish", "K_relatedLawId",
   "K_relatedLaws", "K_law", "K_upperLawName", "K_upperLaw", "K_lowerLawName", "K_lowerLaw",
   "K_lawSerialNo_paren_MST", "K_lawSerialNoMST", "K_comparedLawSerialNo", "K_lawSerialNo_MST",
   "K_lawName_Hangul", "K_lawName_English", "K_legalTerm", "K_lawInfo",
   "title", "lawTitle"}

\* `key in item`: a str or list item of the modelled responses never holds
\* a key; None and numbers raise TypeError
ItemHas(item, k) == IsDict(item) /\ HasKey(item, k)
ItemRaises(item) == ~IsDict(item) /\ ~IsStr(item) /\ ~IsList(item)
\* `key in item and item[key]`
ItemTruthy(item, k) == ItemHas(item, k) /\ Truthy(Item(item, k))
\* the value of the first key of keys that item holds with a truthy value,
\* None when there is none
FirstValue(item, keys) ==
  IF \E i \in 1..Len(keys) : ItemTruthy(item, keys[i])
  THEN Item(item, keys[CHOOSE i \in 1..Len(keys) :
                         ItemTruthy(item, keys[i]) /\ \A j \in 1..(i - 1) : ~ItemTruthy(item, keys[j])])
  ELSE None

\* the local variable title before its first assignment
Unbound == [t |-> "unbound", v |-> <<>>]

\* lines 846-865; 기본정보 is K_basicInfo
TitleStep(item, target, prev_title) ==
  IF ItemRaises(item) THEN Raise("TypeError")
  ELSE IF target = "couseLs" /\ ItemHas(item, "K_basicInfo")
       THEN LET basic_info == Item(item, "K_basicInfo")
            IN IF IsDict(basic_info)
               THEN Ok(IF Truthy(DictGet(basic_info, "K_lawNameHangul", Str(<<>>)))
                       THEN DictGet(basic_info, "K_lawNameHangul", Str(<<>>))
                       ELSE DictGet(basic_info, "K_lawName", Str(<<>>)))
               ELSE Ok(prev_title)
  ELSE IF target = "elaw" /\ ItemTruthy(item, "K_lawNameEnglish")
       THEN LET english == Item(item, "K_lawNameEnglish")
            IN IF ~IsStr(english) THEN Raise("TypeError")
               ELSE IF ItemTruthy(item, "K_lawNameHangul")
                    THEN (IF ~IsStr(Item(item, "K_lawNameHangul")) THEN Raise("TypeError")
                          ELSE Ok(Str(StripTags(english.v) \o <<" ", "(">>
                                        \o StripTags(Item(item, "K_lawNameHangul").v) \o <<")">>)))
                    ELSE Ok(Str(StripTags(english.v)))
  ELSE LET Usable(k) == ItemTruthy(item, k) /\ Strip(PyStr(Item(item, k))) # <<>>
       IN IF \E i \in 1..Len(title_keys) : Usable(title_keys[i])
          THEN Ok(Str(Strip(PyStr(Item(item, title_keys[
                 CHOOSE i \in 1..Len(title_keys) :
                   Usable(title_keys[i]) /\ \A j \in 1..(i - 1) : ~Usable(title_keys[j])])))))
          ELSE Ok(None)

\* lines 867-881: the fallbacks for a missing title; 구분명 is K_kindName,
\* 일련번호 is K_serialNo, the default of 구분명 is the word 법령
TitleFallback(item, target, title) ==
  IF title = Unbound THEN Raise("UnboundLocalError")
  ELSE IF Truthy(title) THEN Ok(title)
  ELSE IF target = "delHst" /\ ~IsDict(item) THEN Raise("AttributeError")
  ELSE IF target = "delHst"
       THEN Ok(Str(<<"[deleted]">> \o PyStr(DictGet(item, "K_kindName", Str(<<"[law]">>)))
                     \o <<"[serial no]">> \o PyStr(DictGet(item, "K_serialNo", Str(<<>>)))))
  ELSE LET available_keys == IF IsDict(item) THEN Keys(item) ELSE <<>>
           potential_title_keys ==
             SelectSeq(available_keys, LAMBDA k : k \in LooksLikeTitleKey /\ k # "K_kindName")
       IN IF potential_title_keys # <<>>
          THEN Ok(Str(Strip(PyStr(DictGet(item, potential_title_keys[1], Str(<<>>))))))
          ELSE Ok(title)

\* lines 883-886: 제목 없음 is the placeholder "title_missing"
TitleSeg(title) ==
  IF Truthy(title) THEN Seg("title", PyStr(title), <<>>) ELSE Seg("title_missing", <<>>, <<>>)

\* lines 948-952: the first non-blank part of a comma-separated string
RECURSIVE FirstPart(_, _)
FirstPart(s, acc) ==
  IF s = <<>> THEN Strip(acc)
  ELSE IF s[1] = "," THEN (IF Strip(acc) # <<>> THEN Strip(acc) ELSE FirstPart(Tail(s), <<>>))
  ELSE FirstPart(Tail(s), acc \o <<s[1]>>)

\* lines 916-938: raw_value of one detail field
RawValue(item, target, field_keys) ==
  IF ~(target = "couseLs" /\ ItemHas(item, "K_basicInfo")) THEN FirstValue(item, field_keys)
  ELSE IF IsDict(Item(item, "K_basicInfo"))
       THEN FirstValue(Item(item, "K_basicInfo"), field_keys)
       ELSE None
\* lines 940-959: the value shown, or the exception of dict.fromkeys on a
\* list holding an unhashable element
DetailValue(display_name, raw_value) ==
  IF ~Truthy(raw_value) THEN Ok(<<>>)
  ELSE IF display_name = "K_ministryName" /\ IsList(raw_value)
       THEN (IF \E i \in 1..Len(raw_value.v) : IsList(raw_value.v[i]) \/ IsDict(raw_value.v[i])
             THEN Raise("TypeError")
             ELSE Ok(Strip(PyStr(raw_value.v[1]))))
  ELSE IF display_name = "K_ministryName" /\ IsStr(raw_value)
            /\ \E i \in 1..Len(raw_value.v) : raw_value.v[i] = ","
       THEN Ok(FirstPart(raw_value.v, <<>>))
  ELSE Ok(Strip(PyStr(raw_value)))
\* lines 906-962
RECURSIVE DetailSegs(_, _, _)
DetailSegs(item, target, fields) ==
  IF fields = <<>> THEN Ok(<<>>)
  ELSE Then(DetailValue(fields[1][1], RawValue(item, target, fields[1][2])),
            LAMBDA value :
              Then(DetailSegs(item, target, Tail(fields)),
                   LAMBDA rest :
                     IF value # <<>> THEN Ok(<<Seg("detail", <<fields[1][1]>>, value)>> \o rest)
                     ELSE Ok(rest)))

\* a or b or c or d  over item.get(k): the first truthy value, else the last
OrChain(item, keys) ==
  IF \E i \in 1..Len(keys) : Truthy(DictGet(item, keys[i], None))
  THEN DictGet(item, keys[CHOOSE i \in 1..Len(keys) :
                           /\ Truthy(DictGet(item, keys[i], None))
                           /\ \A j \in 1..(i - 1) : ~Truthy(DictGet(item, keys[j], None))], None)
  ELSE DictGet(item, keys[Len(keys)], None)
\* 법령명한글 법령명 삼단비교법령명 3단비교법령명
LawNameKeys == <<"K_lawNameHangul", "K_lawName", "K_threeWayLawName", "K_3wayLawName">>

\* lines 3048-3097: _find_mst_from_law_id(law_id, item); upstream is the
\* outcome of its _make_legislation_request("law", ...) call, an exception or
\* the decoded object.  Every exception ends in None.
_find_mst_from_law_id(law_id, item, upstream) ==
  LET Matches(law) ==
        /\ IsDict(law)
        /\ PyStr(DictGet(law, "K_lawId", DictGet(law, "ID", Str(<<>>)))) = PyStr(law_id)
        /\ Truthy(DictGet(law, "K_lawSerialNo", DictGet(law, "MST", Str(<<>>))))
      MstOf(law) == Str(PyStr(DictGet(law, "K_lawSerialNo", DictGet(law, "MST", Str(<<>>)))))
      FirstMatch(laws) ==
        IF \E i \in 1..Len(laws) : Matches(laws[i])
        THEN MstOf(laws[CHOOSE i \in 1..Len(laws) :
                          Matches(laws[i]) /\ \A j \in 1..(i - 1) : ~Matches(laws[j])])
        ELSE None
      AsLaws(laws) == IF IsList(laws) THEN laws.v ELSE IF Truthy(laws) THEN <<laws>> ELSE <<>>
      Searched(search_data) ==
        IF ~(Truthy(search_data) /\ HasKey(search_data, "LawSearch")) THEN None
        ELSE IF ~IsDict(Item(search_data, "LawSearch")) THEN None
        ELSE FirstMatch(AsLaws(DictGet(Item(search_data, "LawSearch"), "law", List(<<>>))))
  IN IF ~IsDict(item) THEN None
     ELSE IF ~Truthy(OrChain(item, LawNameKeys)) THEN None
     ELSE IF upstream.exc # "" THEN None
     ELSE Searched(upstream.val)

\* lines 1054-1059
thdCmp_mst_keys ==
  <<"K_lawSerialNo", "MST", "mst", "lawMst", "K_lawMST",
    "K_serialNo", "K_lawSerialNo_paren_MST", "K_lawSerialNoMST",
    "thdCmpMST", "K_3wayMST", "K_comparedLawSerialNo",
    "K_lawSerialNoMST", "K_lawSerialNo_MST">>

\* lines 1049-1095: the hint of a three-way comparison item
ThdCmpHint(item, law_id, upstream) ==
  LET Usable(k) == ItemTruthy(item, k) /\ Strip(PyStr(Item(item, k))) # <<>>
      MstSegs(thd_mst) ==
        <<Seg("mst", thd_mst, <<>>),
          Seg("hint", <<"get_three_way_comparison_detail", "knd=1">>, thd_mst),
          Seg("hint", <<"get_three_way_comparison_detail", "knd=2">>, thd_mst)>>
      NameSegs(law_name) ==
        IF Truthy(law_name)
        THEN Ok(<<Seg("note_searching", <<>>, <<>>),
                  Seg("hint", <<"search_law">>, PyStr(clean_html_tags(law_name)))>>)
        ELSE Ok(<<Seg("note_no_serial", <<>>, <<>>)>>)
      Hinted(thd_mst) ==
        IF Truthy(thd_mst) THEN Ok(MstSegs(PyStr(thd_mst)))
        ELSE IF ~IsDict(item) THEN Raise("AttributeError")
        ELSE NameSegs(OrChain(item, LawNameKeys))
  IN IF \E i \in 1..Len(thdCmp_mst_keys) : Usable(thdCmp_mst_keys[i])
     THEN Hinted(Str(Strip(PyStr(Item(item, thdCmp_mst_keys[
            CHOOSE i \in 1..Len(thdCmp_mst_keys) :
              /\ Usable(thdCmp_mst_keys[i])
              /\ \A j \in 1..(i - 1) : ~Usable(thdCmp_mst_keys[j])])))))
     ELSE IF Truthy(law_id) THEN Hinted(_find_mst_from_law_id(law_id, item, upstream))
     ELSE Hinted(None)

\* lines 964-1099: the next-call hint.  A target with an id of its own falls
\* back on law_id, found or not.
HintSegs(item, target, upstream) ==
  LET OwnId(own_id, law_id, fn) ==
        IF Truthy(own_id) THEN Ok(<<Seg("hint", <<fn>>, PyStr(own_id))>>)
        ELSE Ok(<<Seg("hint", <<fn>>, PyStr(law_id))>>)
      Hinted(mst, law_id) ==
        CASE target = "oldAndNew" ->
               IF Truthy(FirstValue(item, <<"K_oldNewSerialNo", "K_oldNewMST", "MST">>))
               THEN Ok(<<Seg("hint", <<"get_old_and_new_law_detail">>,
                             PyStr(FirstValue(item, <<"K_oldNewSerialNo", "K_oldNewMST", "MST">>)))>>)
               ELSE Ok(<<Seg("note_no_serial", <<>>, <<>>)>>)
          [] target = "admrulOldAndNew" ->
               OwnId(FirstValue(item, <<"K_oldNewSerialNo", "K_oldNewMST">>), law_id,
                     "get_administrative_rule_comparison_detail")
          [] target = "admrul" ->
               OwnId(FirstValue(item, <<"K_admRuleSerialNo", "K_admRuleMST">>), law_id,
                     "get_administrative_rule_detail")
          [] target = "trty" ->
               OwnId(FirstValue(item, <<"K_treatySerialNo", "K_treatyMST">>), law_id,
                     "get_treaty_detail")
          [] target = "lnkLsOrd" ->
               OwnId(FirstValue(item, <<"K_ordinanceSerialNo", "K_ordinanceMST">>), law_id,
                     "get_local_ordinance_detail")
          [] target = "delHst" ->
               IF ~IsDict(item) THEN Raise("AttributeError")
               ELSE IF Truthy(DictGet(item, "K_serialNo", Str(<<>>)))
                    THEN Ok(<<Seg("note_deleted", PyStr(DictGet(item, "K_serialNo", Str(<<>>))), <<>>)>>)
                    ELSE Ok(<<>>)
          [] target = "thdCmp" -> ThdCmpHint(item, law_id, upstream)
          [] OTHER ->
               IF Truthy(mst) THEN Ok(<<Seg("hint", <<"get_law_detail", "mst">>, PyStr(mst))>>)
               ELSE IF Truthy(law_id)
                    THEN Ok(<<Seg("hint", <<"get_law_detail", "law_id">>, PyStr(law_id))>>)
               ELSE Ok(<<>>)
  IN Hinted(FirstValue(item, <<"K_lawSerialNo", "MST", "mst", "lawMst">>),
            FirstValue(item, IF target = "lsRlt"
                             THEN <<"K_relatedLawId", "K_lawId", "ID", "lawId">>
                             ELSE <<"K_lawId", "ID", "id", "lawId">>))

\* lines 1101-1111: the articles of a custom-classification item; 조문단위 is
\* K_articleUnit, 조문번호 K_articleNo, 조문제목 K_articleTitle
ArticleSegs(item, target) ==
  LET Listed(article_units) ==
        IF ~Truthy(article_units) THEN Ok(<<>>)
        ELSE IF article_units.t = "int" THEN Raise("TypeError")
        ELSE IF ~IsList(article_units) THEN Raise("AttributeError")
        ELSE IF \E i \in 1..Len(article_units.v) : ~IsDict(article_units.v[i])
             THEN Raise("AttributeError")
        ELSE Ok(<<Seg("articles_header", <<ToString(Len(article_units.v))>>, <<>>)>>
                \o [i \in 1..Len(article_units.v) |->
                      Seg("article",
                          PyStr(DictGet(article_units.v[i], "K_articleNo", Str(<<>>))),
                          PyStr(DictGet(article_units.v[i], "K_articleTitle", Str(<<>>))))])
      Units(articles) ==
        IF ~IsDict(articles) /\ ~IsStr(articles) /\ ~IsList(articles) THEN Raise("TypeError")
        ELSE IF ~(IsDict(articles) /\ HasKey(articles, "K_articleUnit")) THEN Ok(<<>>)
        ELSE Listed(Item(articles, "K_articleUnit"))
  IN IF ~(target = "couseLs" /\ ItemHas(item, "K_articles")) THEN Ok(<<>>)
     ELSE Units(Item(item, "K_articles"))

\* lines 823-1113: the block of item number i; title is the value the
\* variable title holds after the block
ItemBlock(item, target, i, prev_title, upstream) ==
  Then(TitleStep(item, target, prev_title), LAMBDA found :
  Then(TitleFallback(item, target, found), LAMBDA title :
  Then(DetailSegs(item, target,
                  IF target = "thdCmp" THEN detail_fields \o thdCmp_detail_fields
                  ELSE detail_fields), LAMBDA details :
  Then(HintSegs(item, target, upstream[i]), LAMBDA hints :
  Then(ArticleSegs(item, target), LAMBDA articles :
    Ok([segs |-> <<Seg("index", <<ToString(i)>>, <<>>), TitleSeg(title)>>
                   \o details \o hints \o articles \o <<Seg("blank", <<>>, <<>>)>>,
        title |-> title]))))))

RECURSIVE ItemBlocks(_, _, _, _, _)
ItemBlocks(items, target, i, prev_title, upstream) ==
  IF i > Len(items) THEN Ok(<<>>)
  ELSE Then(ItemBlock(items[i], target, i, prev_title, upstream), LAMBDA block :
       Then(ItemBlocks(items, target, i + 1, block.title, upstream), LAMBDA rest :
         Ok(block.segs \o rest)))

\* seq[:n]
Prefix(seq, n) ==
  IF n >= 0 THEN SubSeq(seq, 1, IF n < Len(seq) THEN n ELSE Len(seq))
  ELSE SubSeq(seq, 1, Len(seq) + n)

\* ------------------------------------------------------------------------
\* _format_law_service_history (law_tools.py lines 307-488)
\* ------------------------------------------------------------------------
\* 법령정보 K_lawInfo, 조문정보 K_articleInfo, 조문변경일 K_articleChangeDate,
\* 변경사유 K_changeReason, 조문링크 K_articleLink; the reasons 제정, 전부개정,
\* 일부개정 are the one-token strings K_enactment, K_fullRevision,
\* K_partialRevision.  Numbers of the modelled responses have one digit, so
\* that str() of a number and the string of its digit are the same value.
Digits == {"0", "1", "2", "9"}
DigitVal(c) == CASE c = "0" -> 0 [] c = "1" -> 1 [] c = "2" -> 2 [] OTHER -> 9
\* str.isdigit()
IsDigits(s) == s # <<>> /\ \A i \in 1..Len(s) : s[i] \in Digits
RECURSIVE IntOf(_)
IntOf(s) == IF s = <<>> THEN 0 ELSE 10 * IntOf(SubSeq(s, 1, Len(s) - 1)) + DigitVal(s[Len(s)])
\* int(x)
PyInt(x) ==
  CASE x.t = "int" -> Ok(x.v)
    [] IsStr(x) -> IF IsDigits(Strip(x.v)) THEN Ok(IntOf(Strip(x.v))) ELSE Raise("ValueError")
    [] OTHER -> Raise("TypeError")

\* lines 383-385: f"{d[:4]}-{d[4:6]}-{d[6:8]}" if len(d) == 8 else d
FormatDate(d) ==
  IF Len(d) = 8
  THEN SubSeq(d, 1, 4) \o <<"-">> \o SubSeq(d, 5, 6) \o <<"-">> \o SubSeq(d, 7, 8)
  ELSE d

\* lines 388-416: the background sentence of a change, named by its period
get_context_by_period(year, change_type) ==
  LET year_int == IF IsDigits(year) THEN IntOf(year) ELSE 2024
  IN CASE change_type = <<"K_enactment">> ->
            (IF year_int <= 1960 THEN "founding"
             ELSE IF year_int <= 1980 THEN "development"
             ELSE IF year_int <= 2000 THEN "modernisation"
             ELSE "digital")
       [] change_type = <<"K_fullRevision">> ->
            (IF year_int <= 1980 THEN "restructuring"
             ELSE IF year_int <= 2000 THEN "international"
             ELSE "innovation")
       [] change_type = <<"K_partialRevision">> ->
            (IF year_int >= 2020 THEN "covid"
             ELSE IF year_int >= 2010 THEN "deregulation"
             ELSE "supplement")
       [] OTHER -> "clarification"

\* line 336: duplicate_key = f"{mst}_{effective_date}_{revision_type}"
duplicate_key(law_info) ==
  PyStr(DictGet(law_info, "K_lawSerialNo", Str(<<>>))) \o <<"_">>
    \o PyStr(DictGet(law_info, "K_effectiveDate", Str(<<>>))) \o <<"_">>
    \o PyStr(DictGet(law_info, "K_revisionKindName", Str(<<>>)))

\* lines 326-343: the entries whose duplicate_key was not seen before
RECURSIVE unique_history(_, _, _)
unique_history(items, seen_entries, acc) ==
  IF items = <<>> THEN Ok(acc)
  ELSE IF ~IsDict(items[1]) THEN Raise("AttributeError")
  ELSE LET law_info == DictGet(items[1], "K_lawInfo", Dict(<<>>))
       IN IF ~IsDict(law_info) THEN Raise("AttributeError")
          ELSE IF duplicate_key(law_info) \in seen_entries
               THEN unique_history(Tail(items), seen_entries, acc)
               ELSE unique_history(Tail(items), seen_entries \cup {duplicate_key(law_info)},
                                   Append(acc, items[1]))

\* line 364: the sort key x.get('조문정보', {}).get('조문변경일', '')
ChangeDate(item) ==
  GetOrRaise(DictGet(item, "K_articleInfo", Dict(<<>>)), "K_articleChangeDate", Str(<<>>))
\* line 364: sorted(..., reverse=True) keeps the order of equal keys; a key
\* that is not a str fails in the comparison or in len() at line 383
RECURSIVE InsertDescending(_, _)
InsertDescending(sorted, item) ==
  IF sorted = <<>> THEN <<item>>
  ELSE IF StrLess(ChangeDate(sorted[Len(sorted)]).val.v, ChangeDate(item).val.v)
       THEN InsertDescending(SubSeq(sorted, 1, Len(sorted) - 1), item) \o <<sorted[Len(sorted)]>>
       ELSE sorted \o <<item>>
RECURSIVE SortDescending(_)
SortDescending(items) ==
  IF items = <<>> THEN <<>>
  ELSE InsertDescending(SortDescending(SubSeq(items, 1, Len(items) - 1)), items[Len(items)])
sorted_history(history_list) ==
  IF \E i \in 1..Len(history_list) : ChangeDate(history_list[i]).exc # ""
  THEN Raise("AttributeError")
  ELSE IF \E i \in 1..Len(history_list) : ~IsStr(ChangeDate(history_list[i]).val)
       THEN Raise("TypeError")
  ELSE Ok(SortDescending(history_list))

\* lines 366-441: the entry of one change.  The icon of line 423 is looked
\* up in CHANGE_DETAILS by 변경사유 and is part of the entry's first line.
HistoryEntry(item, i) ==
  LET article_info == DictGet(item, "K_articleInfo", Dict(<<>>))
      law_info == DictGet(item, "K_lawInfo", Dict(<<>>))
      reason == DictGet(article_info, "K_changeReason", Str(<<>>))
      change_date == DictGet(article_info, "K_articleChangeDate", Str(<<>>))
      article_no == DictGet(article_info, "K_articleNo", Str(<<>>))
      mst == DictGet(law_info, "K_lawSerialNo", Str(<<>>))
      effective == DictGet(law_info, "K_effectiveDate", Str(<<>>))
      revision == DictGet(law_info, "K_revisionKindName", Str(<<>>))
      promulgated == DictGet(law_info, "K_promulgationDate", Str(<<>>))
      ministry == DictGet(law_info, "K_ministryName", Str(<<>>))
      link == DictGet(article_info, "K_articleLink", Str(<<>>))
      change_year == IF Len(change_date.v) >= 4 THEN SubSeq(change_date.v, 1, 4)
                     ELSE <<"2", "0", "2", "4">>
      article_int == IF IsStr(article_no)
                     THEN PyInt(Str(Prefix(article_no.v, 4)))
                     ELSE Raise("TypeError")
  IN IF ~IsStr(change_date) \/ ~IsStr(effective) \/ ~IsStr(promulgated) THEN Raise("TypeError")
     ELSE IF IsList(reason) \/ IsDict(reason) THEN Raise("TypeError")
     ELSE IF Truthy(link) /\ article_int.exc # "" THEN article_int
     ELSE Ok(<<Seg("entry", <<ToString(i)>> \o PyStr(reason), FormatDate(change_date.v)),
               Seg("context", <<get_context_by_period(change_year, PyStr(reason))>>, <<>>),
               Seg("effective", FormatDate(effective.v), <<>>),
               Seg("revision", PyStr(revision), <<>>),
               Seg("promulgated", FormatDate(promulgated.v), <<>>)>>
             \o (IF Truthy(ministry) THEN <<Seg("ministry", PyStr(ministry), <<>>)>> ELSE <<>>)
             \o <<Seg("mst", PyStr(mst), <<>>)>>
             \o (IF Truthy(link)
                 THEN <<Seg("hint", <<"get_law_article_by_key", ToString(article_int.val)>>, PyStr(mst))>>
                 ELSE <<>>)
             \o <<Seg("blank", <<>>, <<>>)>>)

RECURSIVE HistoryEntries(_, _)
HistoryEntries(items, i) ==
  IF i > Len(items) THEN Ok(<<>>)
  ELSE Then(HistoryEntry(items[i], i), LAMBDA entry :
       Then(HistoryEntries(items, i + 1), LAMBDA rest : Ok(entry \o rest)))

\* lines 448-462: the three latest years of change
MaxStr(S) == CHOOSE m \in S : \A o \in S : o = m \/ StrLess(o, m)
RECURSIVE Descending(_, _)
Descending(S, n) ==
  IF S = {} \/ n = 0 THEN <<>> ELSE <<MaxStr(S)>> \o Descending(S \ {MaxStr(S)}, n - 1)
recent_years(items) ==
  Descending({SubSeq(ChangeDate(items[i]).val.v, 1, 4) :
                i \in {j \in 1..Len(items) : Len(ChangeDate(items[j]).val.v) >= 4}}, 3)
\* lines 449-466: the two most frequent reasons, by first appearance among
\* equals
Reason(item) == DictGet(DictGet(item, "K_articleInfo", Dict(<<>>)), "K_changeReason", Str(<<>>))
ReasonCount(items, r) == Cardinality({i \in 1..Len(items) : Reason(items[i]) = r})
FirstSeen(items, r) == CHOOSE i \in 1..Len(items) : Reason(items[i]) = r /\ \A j \in 1..(i - 1) : Reason(items[j]) # r
RECURSIVE TopReasons(_, _, _)
TopReasons(items, R, n) ==
  IF R = {} \/ n = 0 THEN <<>>
  ELSE LET best == CHOOSE r \in R : \A o \in R :
                     \/ ReasonCount(items, o) < ReasonCount(items, r)
                     \/ /\ ReasonCount(items, o) = ReasonCount(items, r)
                        /\ FirstSeen(items, r) <= FirstSeen(items, o)
       IN <<Seg("change_type", PyStr(best), <<ToString(ReasonCount(items, best))>>)>>
            \o TopReasons(items, R \ {best}, n - 1)
main_changes(items) ==
  TopReasons(items, {Reason(items[i]) : i \in {j \in 1..Len(items) : Truthy(Reason(items[j]))}}, 2)

\* lines 309-484, the body inside try
HistoryBody(data, search_query) ==
  LET Rendered(service_data, history_list) ==
        IF ~Truthy(history_list)
        THEN Return(<<Seg("history_empty", search_query,
                          PyStr(DictGet(service_data, "K_lawNameHangul", Str(<<"[no name]">>))))>>)
        ELSE IF history_list.t = "int" THEN Raise("TypeError")
        ELSE IF ~IsList(history_list) THEN Raise("AttributeError")
        ELSE Then(unique_history(history_list.v, {}, <<>>), LAMBDA unique :
             Then(sorted_history(unique), LAMBDA sorted :
             Then(HistoryEntries(sorted, 1), LAMBDA entries :
               Return(<<Seg("history_header",
                            PyStr(DictGet(service_data, "K_lawNameHangul", Str(<<"[no name]">>))),
                            <<ToString(Len(unique))>>),
                        Seg("condition", search_query,
                            PyStr(DictGet(service_data, "K_lawId", Str(<<>>))))>>
                      \o entries
                      \o <<Seg("active_years", recent_years(sorted), <<>>)>>
                      \o main_changes(sorted)
                      \o <<Seg("guide",
                               PyStr(DictGet(service_data, "K_lawNameHangul", Str(<<"[no name]">>))),
                               <<>>)>>))))
      Service(service_data) ==
        IF ~IsDict(service_data) THEN Raise("AttributeError")
        ELSE Then(PyInt(DictGet(service_data, "totalCnt", Num(0))), LAMBDA total_count :
               Rendered(service_data, DictGet(service_data, "law", List(<<>>))))
  IN IF ~IsDict(data) THEN Raise("TypeError")
     ELSE IF ~HasKey(data, "LawService")
          THEN Return(<<Seg("history_not_found", search_query, <<>>)>>)
     ELSE Service(Item(data, "LawService"))

\* lines 307-488: every exception of the body ends in the error text
_format_law_service_history(data, search_query) ==
  LET Caught(body) ==
        IF body.exc # "" THEN <<Seg("history_error", search_query, <<body.exc>>)>> ELSE body.val
  IN Caught(HistoryBody(data, search_query))

\* ------------------------------------------------------------------------
\* _format_search_results, the whole function (law_tools.py lines 598-1122)
\* ------------------------------------------------------------------------
\* lines 600-1118, the body inside try; upstream[i] is the outcome of the
\* upstream request made while item i is rendered
FormatBody(data, target, search_query, max_results, upstream) ==
  LET Rendered(total_count, blocks) ==
        <<Seg("header", search_query,
              <<ToString(total_count)>>
                \o (IF total_count > max_results THEN <<ToString(max_results)>> ELSE <<>>))>>
          \o blocks
          \o (IF total_count > max_results THEN <<Seg("more_results", <<>>, <<>>)>> ELSE <<>>)
  IN Then(TargetData(data, target, _format_law_service_history(data, search_query)),
          LAMBDA target_data :
            IF AsList(target_data).v = <<>> THEN EmptyResultText(data, target, search_query)
            ELSE Then(SortForLawTargets(AsList(target_data).v, target, search_query),
                      LAMBDA sorted :
                        Then(ItemBlocks(Prefix(sorted, max_results), target, 1, Unbound, upstream),
                             LAMBDA blocks : Return(Rendered(Len(sorted), blocks)))))

\* lines 598-1122: the text returned; every exception of the body ends in
\* the error text of line 1122
_format_search_results(data, target, search_query, max_results, upstream) ==
  LET Caught(body) ==
        IF body.exc # "" THEN <<Seg("format_error", <<body.exc>>, <<>>)>> ELSE body.val
  IN Caught(FormatBody(data, target, search_query, max_results, upstream))

\* ------------------------------------------------------------------------
\* The state: one decoded upstream response and what each function of the
\* normalisation layer returns for it
\* ------------------------------------------------------------------------
VARIABLES
  result,        \* the decoded JSON object (None when the body was empty)
  target,        \* the target the caller passes
  done,          \* the functions that have returned for this response
  extracted,     \* value of extract_items_from_response(result, target)
  normalized,    \* value of normalize_response(result, target)
  search_query,  \* the query the formatter echoes
  max_results,   \* the formatter's limit
  text,          \* value of _format_search_results(result, target, ...)
  text_again     \* value of a second call with the same arguments

\* the sanitizer's calls
VARIABLES
  dirty,            \* the value handed to the sanitizer
  fields_to_clean,  \* the allow-list of the call ({} when none is supplied)
  cleaned           \* what the successive sanitizer calls returned

\* one call of the URL builder
VARIABLES
  params,     \* the caller's query parameters, a mapping
  is_detail,  \* the flag of the call
  url         \* what _generate_api_url returned

\* the file cache and the calls that use it
VARIABLES
  clock,     \* the current time, in days
  files,     \* the cache directory: cache key -> [mtime, content]
  writable,  \* whether ensure_cache_dir() finds the directory writable
  call       \* the last call made: what was asked, what was found, the answer

\* the context sources and one with_context call
VARIABLES
  ctx,                  \* the MCP context injected into the tool, or None
  global_context,       \* server._global_context
  legislation_context,  \* the legacy module variable of server.py
  failing,              \* the contexts with which fallback_func raises
  returned              \* the outcome of with_context and the contexts it tried

\* a function called on its own: its arguments and the value it returns
VARIABLES
  args,
  retval

\* the record of the saves made by direct calls of save_to_cache
VARIABLES
  saved       \* cache key -> the data and the day of the last save to it

\* save_to_cache and load_from_cache running at the same time on one key
VARIABLES
  disk,       \* the cache file of the key: whether it exists, mtime, content
  savers,     \* each save_to_cache call: where it stands, what it writes
  loader      \* the load_from_cache call: where it stands, what it returned

\* the server lifespan and the readers of the global context
VARIABLES
  lifespans,     \* each run of legislation_lifespan: where it stands, its context
  context_lock,  \* who holds server._context_lock, "" when it is free
  getter         \* a thread in get_global_context, and what its last call returned

respVars ==
  <<result, target, done, extracted, normalized, search_query, max_results, text, text_again>>
cleanVars == <<dirty, fields_to_clean, cleaned>>
urlVars == <<params, is_detail, url>>
cacheVars == <<clock, files, writable, call>>
ctxVars == <<ctx, global_context, legislation_context, failing, returned>>
pureVars == <<args, retval>>
storeVars == <<saved>>
raceVars == <<disk, savers, loader>>
lifeVars == <<lifespans, context_lock, getter>>
restVars == <<pureVars, storeVars, raceVars, lifeVars>>
vars == <<respVars, cleanVars, urlVars, cacheVars, ctxVars, restVars>>
\* what the actions on a response, on the sanitizer and on the URL builder
\* leave alone
notRespVars == <<cleanVars, urlVars, cacheVars, ctxVars, restVars>>
notCleanVars == <<urlVars, cacheVars, ctxVars, restVars>>
notUrlVars == <<cleanVars, cacheVars, ctxVars, restVars>>
notCacheVars == <<respVars, cleanVars, urlVars, ctxVars, restVars>>
notCtxVars == <<respVars, cleanVars, urlVars, cacheVars, restVars>>

\* no sanitizer call is in progress
NoCleaning == dirty = None /\ fields_to_clean = {} /\ cleaned = <<>>
\* no URL is being built
NoUrl == params = None /\ is_detail = FALSE /\ url = None
\* the cache is not in use
NoCall == [op |-> "none", key |-> <<>>, at |-> 0, found |-> "none", requests |-> 0, out |-> None]
NoCache == clock = 0 /\ files = <<>> /\ writable = TRUE /\ call = NoCall
\* no function is called on its own
NoPureCall == args = None /\ retval = None
\* save_to_cache has not been called directly
NoStore == saved = <<>>
\* no call runs beside another
NoFile == [exists |-> FALSE, mtime |-> 0, tokens |-> <<>>]
NoRace == disk = NoFile /\ savers = <<>> /\ loader = <<>>
\* the server is not running
NoLifespan == lifespans = <<>> /\ context_lock = "" /\ getter = <<>>
NoRest == NoPureCall /\ NoStore /\ NoRace /\ NoLifespan
\* no tool is asking for a context
NoContextUse ==
  /\ ctx = None /\ global_context = None /\ legislation_context = None
  /\ failing = {} /\ returned = None

\* records of the responses
FieldStrings == UNION {[1..n -> Alphabet] : n \in 0..MaxFieldLen}
Field(k, val) == Dict(<< <<k, val>> >>)
\* 법령명한글 is on the sanitizer's allow-list, 법령ID is not
Records ==
  {Dict(<<>>)}
    \cup {Field(k, Str(s)) : k \in {"K_lawNameHangul", "K_lawId"}, s \in FieldStrings}
    \cup {Field("K_reason", List(<<Str(<<" ">>), None>>)),
          Field("K_reason", Field("K_articleTitle", Str(<<"<", "x", ">">>))),
          Field("K_lawId", None), Field("K_lawId", Num(0))}
r0 == Field("K_lawNameHangul", Str(<<"x">>))
r1 == Field("K_lawId", Str(<<"l">>))

\* {outer_key: {inner_key: value}}
Envelope(outer_key, inner_key, value) == Field(outer_key, Field(inner_key, value))

\* a known target with its own envelope around one record (as a sequence
\* of one or as a bare mapping), a string, nothing, or an empty sequence
SingleEnvelopeInputs ==
  {<<Envelope(e[2], e[3], val), e[1]>> :
     e \in {RESPONSE_STRUCTURE_MAP[i] : i \in MapIndex},
     val \in {List(<<r>>) : r \in Records} \cup Records
               \cup {Str(<<>>), Str(<<"x">>), None, List(<<>>), List(<<r0, r1>>)}}

\* top-level entries of the multi-key responses
TopEntries ==
  { <<"Law", Str(<<"x">>)>>, <<"Law", Str(<<>>)>>, <<"Law", List(<<r0>>)>>,
    <<"Law", r1>>, <<"Law", None>>,
    <<"LawSearch", Dict(<<>>)>>, <<"LawSearch", Field("law", List(<<>>))>>,
    <<"LawSearch", Field("law", List(<<r0>>))>>,
    <<"LawSearch", Dict(<< <<"totalCnt", Num(5)>>, <<"law", List(<<r0, r1>>)>> >>)>>,
    <<"LawSearch", Str(<<"x">>)>>, <<"LawSearch", Field("law", Str(<<"x">>))>>,
    <<"OrdinSearch", Dict(<< <<"law", List(<<>>)>>, <<"ordinfd", List(<<r1>>)>> >>)>>,
    <<"OrdinSearch", Dict(<< <<"law", List(<<r0>>)>>, <<"ordinfd", List(<<r1>>)>> >>)>>,
    <<"OrdinSearch", Field("ordinfd", r1)>>,
    <<"PrecSearch", Field("prec", List(<<r1>>))>>, <<"PrecSearch", Field("prec", List(<<>>))>>,
    <<"K_law", List(<<r0>>)>>, <<"K_law", r0>>, <<"K_law", Str(<<"x">>)>>,
    <<"items", List(<<r1>>)>>, <<"items", List(<<>>)>>, <<"items", Num(1)>>,
    <<"data", r1>>, <<"data", None>>,
    <<"result", List(<<r0, r1>>)>>, <<"result", Str(<<"x">>)>>,
    <<"other", List(<<r0>>)>> }

DistinctKeys(es) == \A i, j \in 1..Len(es) : i # j => es[i][1] # es[j][1]
MultiKeyResponses ==
  {Dict(es) : es \in {s \in UNION {[1..n -> TopEntries] : n \in 1..MaxKeys} : DistinctKeys(s)}}
\* "zzz" is a target the table does not know
MultiKeyInputs ==
  {<<res, t>> : res \in MultiKeyResponses,
                t \in {NoTarget, "law", "ordin", "ordinfd", "prec", "zzz"}}

\* an empty body decodes to nothing
EmptyInputs == {<<res, t>> : res \in {None, Dict(<<>>)}, t \in {NoTarget, "law", "zzz"}}

ResolverInputs == SingleEnvelopeInputs \cup MultiKeyInputs \cup EmptyInputs

NotExtracted == Triple(<<>>, 0, None)
NotNormalized ==
  [success |-> FALSE, items |-> <<>>, total_count |-> 0, error |-> None, raw_keys |-> <<>>]

NotFormatted == <<>>
\* line 598: max_results = 50
DefaultMaxResults == 50

Init ==
  /\ \E in \in ResolverInputs : result = in[1] /\ target = in[2]
  /\ done = {}
  /\ extracted = NotExtracted
  /\ normalized = NotNormalized
  /\ search_query = <<"x">>
  /\ max_results = DefaultMaxResults
  /\ text = NotFormatted /\ text_again = NotFormatted
  /\ NoCleaning /\ NoUrl /\ NoCache /\ NoContextUse /\ NoRest

ExtractItems ==
  /\ "extract" \notin done
  /\ extracted' = extract_items_from_response(result, target)
  /\ done' = done \cup {"extract"}
  /\ UNCHANGED <<result, target, normalized, search_query, max_results, text, text_again>>
  /\ UNCHANGED notRespVars

NormalizeResponse ==
  /\ "normalize" \notin done
  /\ normalized' = normalize_response(result, target)
  /\ done' = done \cup {"normalize"}
  /\ UNCHANGED <<result, target, extracted, search_query, max_results, text, text_again>>
  /\ UNCHANGED notRespVars

Next == ExtractItems \/ NormalizeResponse

Spec == Init /\ [][Next]_vars

\* ------------------------------------------------------------------------
\* The formatter's responses
\* ------------------------------------------------------------------------
Pairs(p) == Dict(p)
S1(c) == Str(<<c>>)
\* a law with a name, an id and a serial number
titled ==
  Pairs(<< <<"K_lawNameHangul", S1("x")>>, <<"K_lawId", S1("1")>>, <<"K_lawSerialNo", S1("2")>> >>)
\* a named record with a repeated ministry and no id
named ==
  Pairs(<< <<"K_lawName", Str(<<"l", "x">>)>>, <<"K_ministryName", Str(<<"x", ",", "x">>)>> >>)
\* a record with neither a title field nor an id field
bare == Field("K_effectiveDate", S1("1"))
\* a record with an id field only
idOnly == Field("K_lawId", S1("1"))
\* a record whose only name is blank
blankTitle == Field("K_lawNameHangul", S1(" "))
english ==
  Pairs(<< <<"K_lawNameEnglish", Str(<<"<", "x", ">", "X">>)>>, <<"K_lawNameHangul", S1("x")>>,
           <<"MST", Num(2)>> >>)
custom ==
  Pairs(<< <<"K_basicInfo", Pairs(<< <<"K_lawName", S1("x")>>, <<"K_lawId", S1("1")>> >>)>>,
           <<"K_articles", Field("K_articleUnit",
               List(<<Pairs(<< <<"K_articleNo", Num(1)>>, <<"K_articleTitle", S1("x")>> >>)>>))>> >>)
customBad == Field("K_basicInfo", S1("x"))
threeWay == Pairs(<< <<"K_threeWayLawName", S1("x")>>, <<"K_lawId", S1("1")>> >>)
deleted == Pairs(<< <<"K_serialNo", S1("1")>>, <<"K_kindName", S1("x")>> >>)
ruled == Pairs(<< <<"K_admRuleName", S1("x")>>, <<"K_admRuleSerialNo", S1("2")>> >>)
ItemPool ==
  {titled, named, bare, idOnly, blankTitle, english, custom, customBad, threeWay, deleted,
   ruled, Dict(<<>>), S1("x"), Str(<<>>), None}
PairPool == {titled, named, bare, idOnly}

ItemLists == UNION {[1..n -> PairPool] : n \in 0..MaxItems} \cup {<<it>> : it \in ItemPool}
\* what an envelope may hold: a list, a bare mapping, a string, nothing
EnvelopeValues == {List(l) : l \in ItemLists} \cup ItemPool

FormatTargets ==
  {"law", "elaw", "ppc", "detc", "prec", "admrul", "trty", "oldAndNew", "admrulOldAndNew",
   "lnkLsOrd", "delHst", "thdCmp", "couseLs", "lsRlt", "lsJoHstInf", "zzz"}
\* the root key and data key _format_search_results reads for a target
FormatRoot(t) ==
  CASE \E e \in SpecialRoots : e[1] = t -> <<SpecialRootOf(t)[2], SpecialRootOf(t)[3]>>
    [] t = "admrulOldAndNew" -> <<"OldAndNewLawSearch", "oldAndNew">>
    [] t = "couseLs" -> <<"K_customClass", "K_law">>
    [] t = "lsRlt" -> <<"lsRltSearch", "K_law">>
    [] t = "lsJoHstInf" -> <<"LawService", "law">>
    [] t \in LawKeyTargets -> <<"LawSearch", "law">>
    [] OTHER -> <<"LawSearch", t>>

EnvelopeInputs ==
  {<<Envelope(FormatRoot(t)[1], FormatRoot(t)[2], val), t>> : t \in FormatTargets, val \in EnvelopeValues}
    \cup {<<Envelope(MapEntry(t)[2], MapEntry(t)[3], val), t>> :
            t \in FormatTargets \cap MapTargets, val \in EnvelopeValues}
    \cup {<<Envelope("lsRltSearch", "K_law", Field("K_relatedLaws", val)), "lsRlt">> :
            val \in EnvelopeValues}
    \cup {<<Dict(<< <<"LawSearch", Dict(<< <<"totalCnt", S1("0")>>, <<"law", val>> >>)>> >>), t>> :
            t \in {"law", "ppc", "prec"}, val \in {List(<<>>), List(<<titled>>), S1("x")}}
\* responses without the envelope of the target
OtherInputs ==
  {<<Field(k, val), t>> : k \in {"K_law", "LawService", "zzz", "other"},
                          t \in {"law", "ppc", "zzz"}, val \in EnvelopeValues}
    \cup {<<res, t>> : t \in FormatTargets,
                        res \in {None, Dict(<<>>), Field("Law", S1("x")), Field("LawSearch", S1("x")),
                                  Dict(<< <<"other", List(<<titled>>)>>, <<"more", S1("x")>> >>)}}

\* change-history entries; dates have eight digits or fewer
D2021 == <<"2", "0", "2", "1", "0", "1", "0", "1">>
D2020 == <<"2", "0", "2", "0", "0", "1", "0", "1">>
D1900 == <<"1", "9", "0", "0", "0", "1", "0", "1">>
LawInfo(mst, effective, revision) ==
  Pairs(<< <<"K_lawSerialNo", mst>>, <<"K_effectiveDate", Str(effective)>>,
           <<"K_revisionKindName", S1(revision)>>, <<"K_promulgationDate", Str(effective)>> >>)
ArticleInfo(date, reason, no, link) ==
  Pairs(<< <<"K_articleChangeDate", date>>, <<"K_changeReason", S1(reason)>>,
           <<"K_articleNo", no>>, <<"K_articleLink", link>> >>)
Change(law_info, article_info) ==
  Pairs(<< <<"K_lawInfo", law_info>>, <<"K_articleInfo", article_info>> >>)
HistoryPool ==
  { Change(LawInfo(S1("1"), D2020, "K_partialRevision"),
           ArticleInfo(Str(D2020), "K_partialRevision", Str(<<"0", "0", "0", "1">>), S1("x"))),
    Change(LawInfo(S1("1"), D2020, "K_partialRevision"),
           ArticleInfo(Str(D2021), "K_enactment", Str(<<"0", "0", "0", "2">>), S1("x"))),
    Change(LawInfo(Num(1), D2020, "K_partialRevision"),
           ArticleInfo(Str(<<"2", "0", "1", "9">>), "K_fullRevision", Str(<<>>), Str(<<>>))),
    Change(LawInfo(S1("2"), D1900, "K_enactment"),
           ArticleInfo(Str(D1900), "K_enactment", S1("x"), S1("x"))),
    Change(LawInfo(S1("9"), D1900, "K_enactment"),
           ArticleInfo(Str(D1900), "K_enactment", None, Str(<<>>))),
    Field("K_articleInfo", S1("x")),
    Dict(<<>>) }
HistoryLists == UNION {[1..n -> HistoryPool] : n \in 0..MaxItems}
HistoryInputs ==
  {<<Field("LawService",
           Pairs(<< <<"K_lawNameHangul", S1("x")>>, <<"totalCnt", cnt>>, <<"law", List(h)>> >>)),
     "lsJoHstInf">> : cnt \in {S1("2"), Num(2), S1("x"), None}, h \in HistoryLists}

FormatterInputs == EnvelopeInputs \cup OtherInputs \cup HistoryInputs
Queries == {<<"x">>, <<"l", " ", "x">>}
MaxResultsValues == {1, 2, DefaultMaxResults}

\* what the upstream law search made by _find_mst_from_law_id may answer:
\* a failed request, a law with the id asked for, no law
UpstreamReplies ==
  { Raise("RequestError"),
    Ok(Envelope("LawSearch", "law", List(<<titled>>))),
    Ok(Envelope("LawSearch", "law", List(<<>>))) }

\* the outcomes of the upstream requests of one call, by item: only the
\* three-way comparison target makes any (line 1074)
UpstreamOutcomes(t) ==
  IF t = "thdCmp" THEN [1..MaxItems -> UpstreamReplies]
  ELSE {[i \in 1..MaxItems |-> Raise("NoRequest")]}

InitFormat ==
  /\ \E in \in FormatterInputs : result = in[1] /\ target = in[2]
  /\ search_query \in Queries
  /\ max_results \in MaxResultsValues
  /\ done = {}
  /\ extracted = NotExtracted
  /\ normalized = NotNormalized
  /\ text = NotFormatted /\ text_again = NotFormatted
  /\ NoCleaning /\ NoUrl /\ NoCache /\ NoContextUse /\ NoRest

FormatSearchResults ==
  /\ "format" \notin done
  /\ \E upstream \in UpstreamOutcomes(target) :
       text' = _format_search_results(result, target, search_query, max_results, upstream)
  /\ done' = done \cup {"format"}
  /\ UNCHANGED <<result, target, extracted, normalized, search_query, max_results, text_again>>
  /\ UNCHANGED notRespVars

\* the same call once more: the arguments are those of the first call, the
\* upstream answers whatever it answers now
FormatSearchResultsAgain ==
  /\ "format" \in done /\ "format_again" \notin done
  /\ \E upstream \in UpstreamOutcomes(target) :
       text_again' = _format_search_results(result, target, search_query, max_results, upstream)
  /\ done' = done \cup {"format_again"}
  /\ UNCHANGED <<result, target, extracted, normalized, search_query, max_results, text>>
  /\ UNCHANGED notRespVars

NextFormat == FormatSearchResults \/ ExtractItems \/ FormatSearchResultsAgain

SpecFormat == InitFormat /\ [][NextFormat]_vars

\* ------------------------------------------------------------------------
\* The sanitizer called directly: on a string, applied again to its own
\* output, and on a nested record with and without an allow-list
\* ------------------------------------------------------------------------
\* no response is being normalised or formatted
NoResponse ==
  /\ result = None /\ target = NoTarget
  /\ extracted = NotExtracted /\ normalized = NotNormalized
  /\ search_query = <<>> /\ max_results = DefaultMaxResults
  /\ text = NotFormatted /\ text_again = NotFormatted

CleanStrings == {Str(s) : s \in UNION {[1..n -> Alphabet] : n \in 0..MaxTextLen}}

\* 법령명 is on the allow-list of clean_search_result, 기본정보 is not
NestKeys == {"K_lawName", "K_basicInfo"}
NestLeaves == {Str(<<"<", "x", ">", "x">>), Str(<<"x">>)}
RECURSIVE NestedValues(_)
NestedValues(depth) ==
  IF depth = 0 THEN NestLeaves
  ELSE LET Grow(inner) ==
             NestLeaves \cup {Dict(<<<<k, v>>>>) : k \in NestKeys, v \in inner}
                        \cup {List(<<v>>) : v \in inner}
       IN Grow(NestedValues(depth - 1))
CleanRecords == {v \in NestedValues(MaxDepth) : IsDict(v)}
AllowLists == {{}, {"K_lawName"}, SearchResultFields}

InitClean ==
  /\ dirty \in CleanStrings \cup CleanRecords
  /\ fields_to_clean = {}
  /\ cleaned = <<>>
  /\ done = {}
  /\ NoResponse /\ NoUrl /\ NoCache /\ NoContextUse /\ NoRest

\* clean_html_tags(dirty), then clean_html_tags of what it returned
CleanHtmlTags ==
  /\ IsStr(dirty) /\ Len(cleaned) < 2
  /\ cleaned' = Append(cleaned, clean_html_tags(IF cleaned = <<>> THEN dirty ELSE cleaned[Len(cleaned)]))
  /\ done' = {"clean_html_tags"}
  /\ UNCHANGED <<dirty, fields_to_clean>>
  /\ UNCHANGED <<result, target, extracted, normalized, search_query, max_results, text, text_again>>
  /\ UNCHANGED notCleanVars

\* clean_dict_values(dirty, fields)
CleanDictValues ==
  /\ IsDict(dirty) /\ done = {}
  /\ \E fields \in AllowLists :
       /\ fields_to_clean' = fields
       /\ cleaned' = <<clean_dict_values(dirty, fields)>>
  /\ done' = {"clean_dict_values"}
  /\ UNCHANGED dirty
  /\ UNCHANGED <<result, target, extracted, normalized, search_query, max_results, text, text_again>>
  /\ UNCHANGED notCleanVars

\* clean_search_result(dirty)
CleanSearchResult ==
  /\ IsDict(dirty) /\ done = {}
  /\ fields_to_clean' = SearchResultFields
  /\ cleaned' = <<clean_search_result(dirty)>>
  /\ done' = {"clean_search_result"}
  /\ UNCHANGED dirty
  /\ UNCHANGED <<result, target, extracted, normalized, search_query, max_results, text, text_again>>
  /\ UNCHANGED notCleanVars

NextClean == CleanHtmlTags \/ CleanDictValues \/ CleanSearchResult

SpecClean == InitClean /\ [][NextClean]_vars

\* ------------------------------------------------------------------------
\* _generate_api_url (law_tools.py lines 272-303)
\* ------------------------------------------------------------------------
\* d[key] = value on a dict: an existing key keeps its place
SetItem(d, key, value) ==
  IF HasKey(d, key)
  THEN Dict([i \in 1..Len(d.v) |-> IF d.v[i][1] = key THEN <<key, value>> ELSE d.v[i]])
  ELSE Dict(Append(d.v, <<key, value>>))
\* d.update(other)
RECURSIVE Update(_, _)
Update(d, other) ==
  IF other = <<>> THEN d
  ELSE Update(SetItem(d, other[1][1], other[1][2]), Tail(other))

\* urllib.parse.quote_plus with safe=':' on one character or token: letters,
\* digits and ':' pass, a space becomes '+', the rest is percent-encoded
QuotePlus(c) ==
  CASE c = " " -> "+"
    [] c = "<" -> "%3C"
    [] c = ">" -> "%3E"
    [] c = "&" -> "%26"
    [] c = ";" -> "%3B"
    [] OTHER -> c
\* urlencode(base_params, safe=':'): the pairs key=quoted str(value), in the
\* order of the dict
urlencode(query) ==
  [i \in 1..Len(query.v) |->
     <<query.v[i][1], [j \in 1..Len(PyStr(query.v[i][2])) |-> QuotePlus(PyStr(query.v[i][2])[j])]>>]

\* legislation_config (config.py): the organisation code and the two
\* endpoints
ConfigOC == Str(<<"oc">>)
service_base_url == "lawService.do"
search_base_url == "lawSearch.do"
\* line 303: the empty string returned when building the URL raised
NoUrlBuilt == [base |-> "", query |-> <<>>]

_generate_api_url_DetailFlagOnly(tgt, prms, detail) ==
  IF ~IsDict(prms) THEN NoUrlBuilt
  ELSE LET Sectioned(base_params) ==
             IF ~detail /\ HasKey(base_params, "query") /\ tgt = "law"
                /\ ~HasKey(base_params, "section")
             THEN SetItem(base_params, "section", Str(<<"lawNm">>))
             ELSE base_params
           Built(base_params) ==
             [base |-> IF detail THEN service_base_url ELSE search_base_url,
              query |-> urlencode(base_params)]
       IN Built(Sectioned(SetItem(
            Update(Dict(<< <<"OC", ConfigOC>>, <<"target", Str(<<tgt>>)>> >>), prms.v),
            "type", Str(<<"JSON">>))))
_generate_api_url(tgt, prms, detail) ==
  IF ~IsDict(prms) THEN NoUrlBuilt
  ELSE LET Sectioned(base_params) ==
             IF ~detail /\ HasKey(base_params, "query") /\ tgt = "law"
                /\ ~HasKey(base_params, "section")
             THEN SetItem(base_params, "section", Str(<<"lawNm">>))
             ELSE base_params
           Built(base_params) ==
             [base |-> IF detail /\ (HasKey(prms, "ID") \/ HasKey(prms, "MST"))
                       THEN service_base_url ELSE search_base_url,
              query |-> urlencode(base_params)]
       IN Built(Sectioned(SetItem(
            Update(Dict(<< <<"OC", ConfigOC>>, <<"target", Str(<<tgt>>)>> >>), prms.v),
            "type", Str(<<"JSON">>))))

\* the calls of the URL builder that are checked
UrlTargets == {"law", "elaw"}
UrlKeys == {"ID", "MST", "mst", "query", "section", "type", "target", "OC"}
UrlValues == {Str(<<"1">>), Str(<<"XML">>), Str(<<"x", " ", "&">>)}
UrlParams ==
  {Dict(p) : p \in {q \in UNION {[1..n -> UrlKeys \X UrlValues] : n \in 0..MaxParams} :
                      \A i, j \in 1..Len(q) : i # j => q[i][1] # q[j][1]}}

InitUrl ==
  /\ target \in UrlTargets
  /\ params \in UrlParams
  /\ is_detail \in BOOLEAN
  /\ url = None
  /\ done = {}
  /\ result = None /\ extracted = NotExtracted /\ normalized = NotNormalized
  /\ search_query = <<>> /\ max_results = DefaultMaxResults
  /\ text = NotFormatted /\ text_again = NotFormatted
  /\ NoCleaning /\ NoCache /\ NoContextUse /\ NoRest

GenerateApiUrl ==
  /\ done = {}
  /\ url' = _generate_api_url(target, params, is_detail)
  /\ done' = {"_generate_api_url"}
  /\ UNCHANGED <<params, is_detail>>
  /\ UNCHANGED <<result, target, extracted, normalized, search_query, max_results, text, text_again>>
  /\ UNCHANGED notUrlVars

NextUrl == GenerateApiUrl

SpecUrl == InitUrl /\ [][NextUrl]_vars

\* ------------------------------------------------------------------------
\* The file cache (law_tools.py lines 79-163)
\* ------------------------------------------------------------------------
\* line 80
CACHE_DAYS == 7

\* lines 104-107: the md5 digest of "<law_id>_<section>", kept as the string
\* that is hashed
get_cache_key(law_id, section) == law_id \o <<"_">> \o section

\* the directory is a function from the keys of the files in it
Written(fs, key, file) == [k \in DOMAIN fs \cup {key} |-> IF k = key THEN file ELSE fs[k]]
Unlinked(fs, key) == [k \in DOMAIN fs \ {key} |-> fs[k]]

\* lines 113-120: the file exists and its mtime is later than now - 7 days
is_cache_valid_Inclusive(fs, key, now) ==
  IF key \notin DOMAIN fs THEN FALSE
  ELSE fs[key].mtime >= now - CACHE_DAYS
is_cache_valid(fs, key, now) ==
  IF key \notin DOMAIN fs THEN FALSE
  ELSE fs[key].mtime > now - CACHE_DAYS

\* line 136, json.dump(obj, f): the JSON document written for obj, kept as
\* the value json.load reads from it; a tuple is written as an array
RECURSIVE json_dump(_)
json_dump(obj) ==
  CASE obj.t \in {"list", "tuple"} -> List([i \in 1..Len(obj.v) |-> json_dump(obj.v[i])])
    [] obj.t = "dict" -> Dict([i \in 1..Len(obj.v) |-> <<obj.v[i][1], json_dump(obj.v[i][2])>>])
    [] OTHER -> obj

\* lines 122-142: the directory after save_to_cache(cache_key, data); an
\* unwritable directory skips the save
save_to_cache_OneFile(fs, cache_key, data, now, can_write) ==
  IF ~can_write THEN fs
  ELSE Written(fs, <<>>,
               [mtime |-> now,
                content |-> json_dump(Dict(<< <<"timestamp", Num(now)>>, <<"data", data>> >>))])
save_to_cache(fs, cache_key, data, now, can_write) ==
  IF ~can_write THEN fs
  ELSE Written(fs, cache_key,
               [mtime |-> now,
                content |-> json_dump(Dict(<< <<"timestamp", Num(now)>>, <<"data", data>> >>))])

\* lines 144-163: the directory after load_from_cache(cache_key) and the
\* value it returns
load_from_cache(fs, cache_key, now) ==
  IF cache_key \notin DOMAIN fs THEN [files |-> fs, val |-> None]
  ELSE IF ~is_cache_valid(fs, cache_key, now)
       THEN [files |-> Unlinked(fs, cache_key), val |-> None]
  ELSE [files |-> fs, val |-> DictGet(fs[cache_key].content, "data", None)]

\* what a call finds under a key before it acts
Found(fs, key, now) ==
  IF key \notin DOMAIN fs THEN "missing"
  ELSE IF is_cache_valid(fs, key, now) THEN "valid" ELSE "expired"

\* ------------------------------------------------------------------------
\* _make_legislation_request (law_tools.py lines 180-270)
\* ------------------------------------------------------------------------
\* What the HTTP exchange comes to: requests.get raising (Timeout,
\* ConnectionError), raise_for_status raising (HTTPError), or a response
\* with a Content-Type (html or not) and a body: empty, not JSON, or JSON
\* text decoding to the value json.
Failed(kind) == [kind |-> kind, html |-> FALSE, body |-> "none", json |-> None]
Html(body) == [kind |-> "response", html |-> TRUE, body |-> body, json |-> None]
Body(body) == [kind |-> "response", html |-> FALSE, body |-> body, json |-> None]
Json(value) == [kind |-> "response", html |-> FALSE, body |-> "json", json |-> value]

\* {"error": "... API가 빈 응답을 반환했습니다"}
ErrorObject == Field("error", Str(<<"empty response">>))
ResultCodeFreeTargets == {"elaw", "lsHstInf", "lsJoHstInf"}
LenientJsonTargets == {"elaw", "ordinance", "ordinanceApp"}

\* lines 244-260: the checks on a decoded object
CheckedData(tgt, data) ==
  IF ~IsDict(data) THEN Raise("ValueError")
  ELSE IF ~Truthy(data) THEN Ok(Dict(<<>>))
  ELSE IF ~HasKey(data, "LawSearch") THEN Ok(data)
  ELSE IF ~IsDict(Item(data, "LawSearch")) THEN Raise("AttributeError")
  ELSE IF tgt \in ResultCodeFreeTargets THEN Ok(data)
  ELSE IF Truthy(DictGet(Item(data, "LawSearch"), "resultCode", None))
          /\ DictGet(Item(data, "LawSearch"), "resultCode", None) # Str(<<"00">>)
       THEN Raise("ValueError")
  ELSE Ok(data)

\* the value returned or the exception raised for one HTTP exchange
_make_legislation_request(tgt, http) ==
  IF http.kind # "response" THEN Raise(http.kind)
  ELSE IF tgt = "elaw" /\ http.body = "empty" THEN Ok(ErrorObject)
  ELSE IF http.html THEN Raise("ValueError")
  ELSE IF http.body = "empty" THEN Ok(ErrorObject)
  ELSE IF http.body = "malformed"
       THEN (IF tgt \in LenientJsonTargets THEN Ok(ErrorObject) ELSE Raise("JSONDecodeError"))
  ELSE CheckedData(tgt, http.json)

\* ------------------------------------------------------------------------
\* get_law_detail and get_law_article_by_key (law_tools.py lines 4234-4346)
\* ------------------------------------------------------------------------
\* what a tool hands back: a TextContent, or an exception that leaves it
TextContent(segs) == [type |-> "text", text |-> segs]
Propagated(exc) == [type |-> "exception", text |-> <<exc>>]

\* 법령 is K_law, 기본정보 K_basicInfo, 조문 K_articles, 조문단위
\* K_articleUnit, 조문번호 K_articleNo, 법령명_한글 K_lawName_Hangul
\* utils/law_tools_utils.py: the summary of a detail response, a non-empty
\* mapping naming the law; it reads the response with .get
extract_law_summary_from_detail(data) ==
  IF ~IsDict(data) THEN Raise("AttributeError")
  ELSE IF ~IsDict(DictGet(data, "K_law", Dict(<<>>))) THEN Raise("AttributeError")
  ELSE Ok(Field("K_lawName",
                DictGet(DictGet(DictGet(data, "K_law", Dict(<<>>)), "K_basicInfo", Dict(<<>>)),
                        "K_lawName_Hangul", Str(<<>>))))
\* utils/law_tools_utils.py: the report of a summary
format_law_detail_summary(summary, mst) ==
  IF ~IsDict(summary) THEN Raise("AttributeError")
  ELSE Ok(<<Seg("law_detail", <<mst>>, PyStr(DictGet(summary, "K_lawName", Str(<<>>))))>>)

\* lines 4234-4266: the outcome of get_law_detail(mst) on the directory fs
\* at time now, the upstream answering http if it is asked
get_law_detail_AlwaysFetch(mst, fs, now, can_write, http) ==
  LET cache_key == get_cache_key(<<"law", "_", mst>>, <<"summary">>)
      full_cache_key == get_cache_key(<<"law", "_", mst>>, <<"full">>)
      Answer(files_after, requests, step) ==
        [files |-> files_after, requests |-> requests,
         out |-> IF step.exc # "" THEN TextContent(<<Seg("detail_error", <<step.exc>>, <<>>)>>)
                 ELSE TextContent(step.val)]
      Fetched(loaded, request) ==
        IF request.exc # "" THEN Answer(loaded.files, 1, request)
        ELSE LET Stored(with_full, summary) ==
                   IF summary.exc # "" THEN Answer(with_full, 1, summary)
                   ELSE Answer(save_to_cache(with_full, cache_key, summary.val, now, can_write), 1,
                               format_law_detail_summary(summary.val, mst))
             IN Stored(save_to_cache(loaded.files, full_cache_key, request.val, now, can_write),
                       extract_law_summary_from_detail(request.val))
      Looked(loaded) == Fetched(loaded, _make_legislation_request("law", http))
  IN IF mst = "" THEN [files |-> fs, requests |-> 0, out |-> TextContent(<<Seg("mst_missing", <<>>, <<>>)>>)]
     ELSE Looked(load_from_cache(fs, cache_key, now))
get_law_detail(mst, fs, now, can_write, http) ==
  LET cache_key == get_cache_key(<<"law", "_", mst>>, <<"summary">>)
      full_cache_key == get_cache_key(<<"law", "_", mst>>, <<"full">>)
      Answer(files_after, requests, step) ==
        [files |-> files_after, requests |-> requests,
         out |-> IF step.exc # "" THEN TextContent(<<Seg("detail_error", <<step.exc>>, <<>>)>>)
                 ELSE TextContent(step.val)]
      Fetched(loaded, request) ==
        IF request.exc # "" THEN Answer(loaded.files, 1, request)
        ELSE LET Stored(with_full, summary) ==
                   IF summary.exc # "" THEN Answer(with_full, 1, summary)
                   ELSE Answer(save_to_cache(with_full, cache_key, summary.val, now, can_write), 1,
                               format_law_detail_summary(summary.val, mst))
             IN Stored(save_to_cache(loaded.files, full_cache_key, request.val, now, can_write),
                       extract_law_summary_from_detail(request.val))
      Looked(loaded) ==
        IF Truthy(loaded.val)
        THEN Answer(loaded.files, 0, format_law_detail_summary(loaded.val, mst))
        ELSE Fetched(loaded, _make_legislation_request("law", http))
  IN IF mst = "" THEN [files |-> fs, requests |-> 0, out |-> TextContent(<<Seg("mst_missing", <<>>, <<>>)>>)]
     ELSE Looked(load_from_cache(fs, cache_key, now))

\* utils/law_tools_utils.py: "제1조" and "1" name article 1
normalize_article_key(article_key) == article_key
\* utils/law_tools_utils.py: the first unit with the number asked for
find_article_in_data(article_units, article_num) ==
  LET hits == {i \in 1..Len(article_units) :
                 /\ IsDict(article_units[i])
                 /\ PyStr(DictGet(article_units[i], "K_articleNo", Str(<<>>))) = <<article_num>>}
  IN IF hits = {} THEN None ELSE article_units[CHOOSE i \in hits : \A j \in hits : i <= j]

\* lines 4310-4321: the article units of the cached response
ArticleUnits(cached_data) ==
  LET Units(articles_section) ==
        IF IsDict(articles_section) /\ HasKey(articles_section, "K_articleUnit")
        THEN (IF IsList(Item(articles_section, "K_articleUnit"))
              THEN Ok(Item(articles_section, "K_articleUnit").v)
              ELSE IF Truthy(Item(articles_section, "K_articleUnit"))
                   THEN Ok(<<Item(articles_section, "K_articleUnit")>>)
              ELSE Ok(<<>>))
        ELSE IF IsList(articles_section) THEN Ok(articles_section.v)
        ELSE Ok(<<>>)
      InLaw(law_info) ==
        IF ~IsDict(law_info) THEN Raise("AttributeError")
        ELSE Units(DictGet(law_info, "K_articles", Dict(<<>>)))
  IN IF ~IsDict(cached_data) THEN Raise("AttributeError")
     ELSE InLaw(DictGet(cached_data, "K_law", Dict(<<>>)))

\* lines 4291-4346: the outcome of get_law_article_by_key(mst, tgt,
\* article_key)
get_law_article_by_key(mst, tgt, article_key, fs, now) ==
  LET Looked(loaded) ==
        LET Found1(units) ==
              IF units.exc # ""
              THEN TextContent(<<Seg("article_error", <<units.exc>>, <<>>)>>)
              ELSE IF ~Truthy(find_article_in_data(units.val, normalize_article_key(article_key)))
                   THEN TextContent(<<Seg("article_not_found", <<article_key>>, <<>>)>>)
              ELSE TextContent(<<Seg("article", <<article_key>>, <<>>)>>)
        IN [files |-> loaded.files, requests |-> 0,
            out |-> IF ~Truthy(loaded.val)
                    THEN TextContent(<<Seg("no_cached_data", <<>>, <<>>)>>)
                    ELSE Found1(ArticleUnits(loaded.val))]
  IN IF mst = "" \/ tgt = "" \/ article_key = ""
     THEN [files |-> fs, requests |-> 0, out |-> TextContent(<<Seg("args_missing", <<>>, <<>>)>>)]
     ELSE Looked(load_from_cache(fs, get_cache_key(<<tgt, "_", mst>>, <<"full">>), now))

\* ------------------------------------------------------------------------
\* The cache in use: the clock advances, get_law_detail fills the cache,
\* get_law_article_by_key and load_from_cache read it
\* ------------------------------------------------------------------------
Msts == {"1"}
ArticleKeys == {"1", "9"}
\* a detail response: the law named name with its article 1
LawDetail(name) ==
  Field("K_law",
        Pairs(<< <<"K_basicInfo", Field("K_lawName_Hangul", S1(name))>>,
                 <<"K_articles", Field("K_articleUnit",
                     List(<<Pairs(<< <<"K_articleNo", S1("1")>>, <<"K_articleTitle", S1("x")>> >>)>>))>> >>))
\* what the upstream may answer to a detail request, now
DetailHttp ==
  {Failed("Timeout"), Failed("ConnectionError"), Failed("HTTPError"),
   Html("page"), Body("empty"), Body("malformed"),
   Json(List(<<>>)), Json(Dict(<<>>)),
   Json(LawDetail("x")), Json(LawDetail("l")),
   Json(Field("LawSearch", Field("resultCode", Str(<<"01">>)))),
   Json(Field("LawSearch", S1("x"))),
   Json(Field("K_law", S1("x")))}
SummaryKey(mst) == get_cache_key(<<"law", "_", mst>>, <<"summary">>)
FullKey(mst) == get_cache_key(<<"law", "_", mst>>, <<"full">>)
CacheKeys == {SummaryKey(mst) : mst \in Msts} \cup {FullKey(mst) : mst \in Msts}

InitCache ==
  /\ clock = 0
  /\ files = <<>>
  /\ writable \in BOOLEAN
  /\ call = NoCall
  /\ done = {}
  /\ NoResponse /\ NoCleaning /\ NoUrl /\ NoContextUse /\ NoRest

\* a day passes
Tick ==
  /\ clock < MaxClock
  /\ clock' = clock + 1
  /\ UNCHANGED <<files, writable, call>>
  /\ UNCHANGED notCacheVars

\* load_from_cache(key)
LoadFromCache ==
  /\ \E key \in CacheKeys :
       LET Returned(r) ==
             /\ files' = r.files
             /\ call' = [op |-> "load_from_cache", key |-> key, at |-> clock,
                          found |-> Found(files, key, clock), requests |-> 0, out |-> r.val]
       IN Returned(load_from_cache(files, key, clock))
  /\ UNCHANGED <<clock, writable>>
  /\ UNCHANGED notCacheVars

\* get_law_detail(mst), the upstream answering whatever it answers now
GetLawDetail ==
  /\ \E mst \in Msts, http \in DetailHttp :
       LET Returned(r) ==
             /\ files' = r.files
             /\ call' = [op |-> "get_law_detail", key |-> <<mst>>, at |-> clock,
                          found |-> Found(files, SummaryKey(mst), clock),
                          requests |-> r.requests, out |-> r.out]
       IN Returned(get_law_detail(mst, files, clock, writable, http))
  /\ UNCHANGED <<clock, writable>>
  /\ UNCHANGED notCacheVars

\* get_law_article_by_key(mst, "law", article_key)
GetLawArticleByKey ==
  /\ \E mst \in Msts, article_key \in ArticleKeys :
       LET Returned(r) ==
             /\ files' = r.files
             /\ call' = [op |-> "get_law_article_by_key", key |-> <<mst>>, at |-> clock,
                          found |-> Found(files, FullKey(mst), clock),
                          requests |-> r.requests, out |-> r.out]
       IN Returned(get_law_article_by_key(mst, "law", article_key, files, clock))
  /\ UNCHANGED <<clock, writable>>
  /\ UNCHANGED notCacheVars

NextCache == Tick \/ LoadFromCache \/ GetLawDetail \/ GetLawArticleByKey

SpecCache == InitCache /\ [][NextCache]_vars

\* ------------------------------------------------------------------------
\* The tools that ask the upstream: search_law, search_english_law
\* (law_tools.py lines 1471-1762), get_law_articles_range (lines 4374-4483)
\* and search_related_law (law_comparison_tools.py lines 384-446)
\* ------------------------------------------------------------------------
\* 법 is K_beop, 조문여부 K_articleFlag, 조문 (as a value) K_article,
\* 법령명영문 K_lawNameEnglish
\* the upstream's answers during one call of a tool: http[1] to the first
\* request, http[2] to every later one
Nth(http, n) == http[IF n < Len(http) THEN n ELSE Len(http)]
\* the formatter asks the upstream nothing for the targets of these tools
NoLookups == [i \in 1..MaxItems |-> Raise("NoRequest")]
EndsWith(s, p) == Len(p) <= Len(s) /\ SubSeq(s, Len(s) - Len(p) + 1, Len(s)) = p
Upper(s) == [i \in 1..Len(s) |-> CASE s[i] = "x" -> "X" [] s[i] = "l" -> "L" [] OTHER -> s[i]]

\* tools/law_config.py: the general keywords search_law expands, each with
\* the law names it stands for
KEYWORD_TO_LAW_MAPPING == [keyword \in {<<"k">>} |-> << <<"x">> >>]

\* utils/law_tools_utils.py: the text of a law search response; it reads
\* the items with .get
format_search_law_results(data, query) ==
  LET Listed(laws) ==
        IF ~IsList(laws) THEN Ok(<<Seg("law_results", query, <<>>)>>)
        ELSE IF \E i \in 1..Len(laws.v) : ~IsDict(laws.v[i]) THEN Raise("AttributeError")
        ELSE Ok(<<Seg("law_results", query,
                      [i \in 1..Len(laws.v) |-> PyStr(DictGet(laws.v[i], "K_lawNameHangul", Str(<<>>)))])>>)
  IN Listed(DictGet(DictGet(data, "LawSearch", Dict(<<>>)), "law", List(<<>>)))

\* lines 1516-1535: the laws collected for a keyword; a failed request and
\* a response of another shape add nothing
RECURSIVE KeywordResults(_, _, _)
KeywordResults(suggested_laws, http, n) ==
  IF n > Len(suggested_laws) THEN <<>>
  ELSE LET Collected(request) ==
             IF request.exc # "" THEN <<>>
             ELSE IF HasKey(request.val, "LawSearch") /\ HasKey(Item(request.val, "LawSearch"), "law")
                     /\ IsList(Item(Item(request.val, "LawSearch"), "law"))
                  THEN Prefix(Item(Item(request.val, "LawSearch"), "law").v, 3)
             ELSE <<>>
       IN Collected(_make_legislation_request("law", Nth(http, n)))
            \o KeywordResults(suggested_laws, http, n + 1)

\* lines 1540-1552: the blocks of the collected laws, built with law.get
RECURSIVE KeywordBlocks(_, _)
KeywordBlocks(results, i) ==
  IF i > Len(results) THEN Ok(<<>>)
  ELSE IF ~IsDict(results[i]) THEN Raise("AttributeError")
  ELSE Then(KeywordBlocks(results, i + 1),
            LAMBDA blocks :
              Ok(<<Seg("keyword_law", PyStr(DictGet(results[i], "K_lawNameHangul", Str(<<>>))),
                       IF Truthy(DictGet(results[i], "K_lawSerialNo", None))
                       THEN PyStr(Item(results[i], "K_lawSerialNo")) ELSE <<>>)>> \o blocks))

\* lines 1561-1577: the queries tried in turn
SearchAttempts_AlwaysBeop(original_query) ==
  LET cleaned_query == RemoveSpaces(original_query)
      first == <<original_query, original_query \o <<"K_beop">>>>
  IN first \o (IF cleaned_query = original_query THEN <<>>
               ELSE <<cleaned_query, cleaned_query \o <<"K_beop">>>>)
SearchAttempts(original_query) ==
  LET cleaned_query == RemoveSpaces(original_query)
      first == <<original_query>>
                 \o (IF EndsWith(original_query, <<"K_beop">>) THEN <<>>
                     ELSE <<original_query \o <<"K_beop">>>>)
  IN first \o (IF cleaned_query = original_query THEN <<>>
               ELSE <<cleaned_query>>
                      \o (IF ~EndsWith(cleaned_query, <<"K_beop">>)
                             /\ \A i \in 1..Len(first) : first[i] # cleaned_query \o <<"K_beop">>
                          THEN <<cleaned_query \o <<"K_beop">>>> ELSE <<>>))

\* lines 1608-1644: one attempt; Return(text) when the first law matches
\* the query, Ok(count) with the totalCnt of a response that has the law
\* envelope, an exception for everything the inner except clause catches.
\* The names of the modelled responses are strings or numbers.
SearchAttempt(original_query, attempt_query, request) ==
  LET Noted(formatted) ==
        (IF attempt_query # original_query THEN <<Seg("searched_as", original_query, attempt_query)>>
         ELSE <<>>) \o formatted
      Matched(results, law_name, total_count) ==
        IF ~Truthy(law_name) THEN Ok(total_count)
        ELSE IF ~IsStr(law_name) THEN Raise("TypeError")
        ELSE IF Contains(law_name.v, original_query) \/ Contains(law_name.v, attempt_query)
                \/ RemoveSpaces(law_name.v) = RemoveSpaces(attempt_query)
             THEN Then(format_search_law_results(request.val, original_query),
                       LAMBDA formatted : Return(Noted(formatted)))
        ELSE Ok(total_count)
      Counted(results, total_count) ==
        IF total_count.exc # "" THEN total_count
        ELSE IF IsList(results) /\ Len(results.v) > 0
             THEN (IF ~IsDict(results.v[1]) THEN Raise("AttributeError")
                   ELSE Matched(results, DictGet(results.v[1], "K_lawNameHangul", Str(<<>>)),
                                total_count.val))
        ELSE Ok(total_count.val)
  IN IF request.exc # "" THEN request
     ELSE IF HasKey(request.val, "LawSearch") /\ HasKey(Item(request.val, "LawSearch"), "law")
          THEN Counted(Item(Item(request.val, "LawSearch"), "law"),
                       PyInt(DictGet(Item(request.val, "LawSearch"), "totalCnt", Num(0))))
     ELSE Ok(0)

\* lines 1579-1644: the attempts from the n-th on; best is the response
\* with the fewest results so far, <<query, data, count>>, or <<>>
RECURSIVE TryAttempts(_, _, _, _, _, _)
TryAttempts(attempts, n, original_query, http, asked, best) ==
  IF n > Len(attempts) THEN Ok(best)
  ELSE LET Continue(request, attempt) ==
             IF attempt.exc = "" /\ attempt.ret THEN attempt
             ELSE IF attempt.exc = "" /\ 0 < attempt.val /\ attempt.val < 20
                     /\ (best = <<>> \/ attempt.val < best[3])
                  THEN TryAttempts(attempts, n + 1, original_query, http, asked,
                                   <<attempts[n], request.val, attempt.val>>)
             ELSE TryAttempts(attempts, n + 1, original_query, http, asked, best)
           Asked(request) ==
             Continue(request, SearchAttempt(original_query, attempts[n], request))
       IN Asked(_make_legislation_request("law", Nth(http, asked + n)))

\* lines 1556-1678: the search proper, after asked requests of the
\* keyword branch
SearchLawProper(original_query, search, oc, http, asked) ==
  LET attempts == SearchAttempts(original_query)
      BodySearch(request) ==
        IF request.exc # "" THEN <<Seg("no_law_results", original_query, <<>>)>>
        ELSE <<Seg("body_search", <<>>, <<>>)>>
               \o _format_search_results(request.val, "law", original_query, DefaultMaxResults, NoLookups)
      Finished(tried) ==
        IF tried.exc # "" THEN <<Seg("search_law_error", <<tried.exc>>, <<>>)>>
        ELSE IF tried.ret THEN tried.val
        ELSE IF tried.val # <<>>
             THEN (IF tried.val[1] # original_query
                   THEN <<Seg("searched_as", original_query, tried.val[1])>> ELSE <<>>)
                    \o _format_search_results(tried.val[2], "law", original_query,
                                              DefaultMaxResults, NoLookups)
        ELSE IF search = 1
             THEN BodySearch(_make_legislation_request("law", Nth(http, asked + Len(attempts) + 1)))
        ELSE <<Seg("no_law_results", original_query, <<>>)>>
  IN IF ~Truthy(oc) THEN <<Seg("search_law_error", <<"ValueError">>, <<>>)>>
     ELSE Finished(TryAttempts(attempts, 1, original_query, http, asked, <<>>))

\* lines 1471-1678: what search_law(query, search) hands back
search_law(query, search, oc, http) ==
  LET stripped_query == Strip(query)
      Expanded(suggested_laws) ==
        LET Formatted(results) ==
              LET Shown(blocks) ==
                    IF blocks.exc # "" THEN Propagated(blocks.exc)
                    ELSE TextContent(<<Seg("keyword_header", stripped_query, <<ToString(Len(results))>>)>>
                                       \o blocks.val)
              IN IF results # <<>> THEN Shown(KeywordBlocks(Prefix(results, 20), 1))
                 ELSE TextContent(SearchLawProper(stripped_query, search, oc, http, Len(suggested_laws)))
        IN Formatted(KeywordResults(suggested_laws, http, 1))
  IN IF stripped_query = <<>> THEN TextContent(<<Seg("query_missing", <<>>, <<>>)>>)
     ELSE IF Lower(stripped_query) \in DOMAIN KEYWORD_TO_LAW_MAPPING
          THEN Expanded(KEYWORD_TO_LAW_MAPPING[Lower(stripped_query)])
     ELSE TextContent(SearchLawProper(stripped_query, search, oc, http, 0))

\* lines 551-596: the laws of an English search ordered by how well the
\* name matches the query; the response as it is when anything fails
_sort_english_law_results(data, query) ==
  LET query_upper == Strip(Upper(query))
      Name(item) ==
        IF Truthy(DictGet(item, "K_lawNameEnglish", None)) THEN Item(item, "K_lawNameEnglish")
        ELSE IF Truthy(DictGet(item, "K_lawNameHangul", None)) THEN Item(item, "K_lawNameHangul")
        ELSE Str(<<>>)
      Clean(item) == StripTags(Strip(Upper(Name(item).v)))
      relevance_score(item) ==
        IF Clean(item) = query_upper THEN 0
        ELSE IF StartsWith(Clean(item), query_upper) THEN 1
        ELSE IF Contains(Clean(item), query_upper) THEN 2
        ELSE 3
      Scored(laws, score) == SelectSeq(laws, LAMBDA item : relevance_score(item) = score)
      Sorted(laws) == Scored(laws, 0) \o Scored(laws, 1) \o Scored(laws, 2) \o Scored(laws, 3)
      Replaced(laws) ==
        Dict([i \in 1..Len(data.v) |->
                IF data.v[i][1] # "LawSearch" THEN data.v[i]
                ELSE <<"LawSearch",
                       Dict([j \in 1..Len(data.v[i][2].v) |->
                               IF data.v[i][2].v[j][1] # "law" THEN data.v[i][2].v[j]
                               ELSE <<"law", List(Sorted(laws))>>])>>])
      Ordered(laws) ==
        IF ~Truthy(laws) \/ ~IsList(laws) THEN data
        ELSE IF \E i \in 1..Len(laws.v) : ~IsDict(laws.v[i]) \/ ~IsStr(Name(laws.v[i])) THEN data
        ELSE Replaced(laws.v)
  IN IF ~Truthy(data) \/ ~HasKey(data, "LawSearch") THEN data
     ELSE IF ~IsDict(Item(data, "LawSearch")) THEN data
     ELSE Ordered(DictGet(Item(data, "LawSearch"), "law", List(<<>>)))

\* lines 1701-1762: what search_english_law(query) hands back
search_english_law(query, http) ==
  LET Answered(request) ==
        IF request.exc # "" THEN TextContent(<<Seg("elaw_error", <<request.exc>>, <<>>)>>)
        ELSE TextContent(_format_search_results(_sort_english_law_results(request.val, Strip(query)),
                                                "elaw", Strip(query), DefaultMaxResults, NoLookups))
  IN IF Strip(query) = <<>> THEN TextContent(<<Seg("query_missing", <<>>, <<>>)>>)
     ELSE Answered(_make_legislation_request("elaw", Nth(http, 1)))

\* utils/law_tools_utils.py: the body of an article; it reads the article
\* with .get
format_article_body(article) ==
  IF ~IsDict(article) THEN Raise("AttributeError")
  ELSE Ok(<<Seg("article_body", PyStr(DictGet(article, "K_articleNo", Str(<<>>))), <<>>)>>)

\* lines 4430-4479: the articles from start_article on
RangeText(law_info, article_units, start_article, count) ==
  LET IsArticle(unit) == DictGet(unit, "K_articleFlag", None) = S1("K_article")
      Numbered(actual_articles) ==
        LET First(hits, bad) ==
              IF bad # {} /\ (hits = {} \/ \E b \in bad : \A h \in hits : b < h)
              THEN Raise("ValueError")
              ELSE IF hits = {}
                   THEN Return(<<Seg("range_not_found", <<ToString(start_article)>>, <<>>)>>)
              ELSE Ok(CHOOSE h \in hits : \A g \in hits : h <= g)
            Selected(start_idx) ==
              SubSeq(actual_articles, start_idx,
                     IF start_idx + count - 1 < Len(actual_articles) THEN start_idx + count - 1
                     ELSE Len(actual_articles))
            Bodies(selected) ==
              IF selected = <<>> THEN Raise("IndexError")
              ELSE IF ~IsDict(DictGet(law_info, "K_basicInfo", Dict(<<>>))) THEN Raise("AttributeError")
              ELSE Then(PyInt(DictGet(selected[Len(selected)], "K_articleNo", Num(start_article))),
                        LAMBDA end_article_no :
                          Return(<<Seg("range_header",
                                       PyStr(DictGet(DictGet(law_info, "K_basicInfo", Dict(<<>>)),
                                                     "K_lawName_Hangul", Str(<<>>))),
                                       <<ToString(start_article), ToString(end_article_no)>>)>>
                                   \o [i \in 1..Len(selected) |-> format_article_body(selected[i]).val[1]]))
        IN Then(First({i \in 1..Len(actual_articles) :
                         /\ PyInt(DictGet(actual_articles[i], "K_articleNo", S1("0"))).exc = ""
                         /\ PyInt(DictGet(actual_articles[i], "K_articleNo", S1("0"))).val = start_article},
                      {i \in 1..Len(actual_articles) :
                         PyInt(DictGet(actual_articles[i], "K_articleNo", S1("0"))).exc # ""}),
                LAMBDA start_idx : Bodies(Selected(start_idx)))
  IN IF \E i \in 1..Len(article_units) : ~IsDict(article_units[i]) THEN Raise("AttributeError")
     ELSE Numbered(SelectSeq(article_units, IsArticle))

\* lines 4374-4483: the outcome of get_law_articles_range(mst, tgt,
\* start_article, count)
get_law_articles_range(mst, tgt, start_article, count, fs, now, can_write, http) ==
  LET full_cache_key == get_cache_key(<<tgt, "_", mst>>, <<"full">>)
      Text(step) ==
        IF step.exc # "" THEN TextContent(<<Seg("range_error", <<step.exc>>, <<>>)>>)
        ELSE TextContent(step.val)
      Extracted(cached_data) ==
        IF ~IsDict(DictGet(cached_data, "K_law", Dict(<<>>))) THEN Raise("AttributeError")
        ELSE Then(ArticleUnits(cached_data),
                  LAMBDA article_units :
                    RangeText(DictGet(cached_data, "K_law", Dict(<<>>)), article_units,
                              start_article, count))
      Fetched(loaded, request) ==
        IF request.exc # "" THEN [files |-> loaded.files, requests |-> 1, out |-> Text(request)]
        ELSE [files |-> save_to_cache(loaded.files, full_cache_key, request.val, now, can_write),
              requests |-> 1, out |-> Text(Extracted(request.val))]
      Looked(loaded) ==
        IF Truthy(loaded.val)
        THEN [files |-> loaded.files, requests |-> 0, out |-> Text(Extracted(loaded.val))]
        ELSE Fetched(loaded, _make_legislation_request(tgt, Nth(http, 1)))
  IN IF mst = "" \/ tgt = ""
     THEN [files |-> fs, requests |-> 0, out |-> TextContent(<<Seg("args_missing", <<>>, <<>>)>>)]
     ELSE Looked(load_from_cache(fs, full_cache_key, now))

\* law_comparison_tools.py lines 384-446: the outcome of
\* search_related_law(query, display, page)
search_related_law(query, display, page, fs, now, can_write, http) ==
  LET stripped_query == Strip(query)
      cache_key == get_cache_key(<<"lsRlt", "_">> \o stripped_query
                                   \o <<"_", ToString(display), "_", ToString(page)>>,
                                 <<"related_law">>)
      Fetched(loaded, request) ==
        IF request.exc # ""
        THEN [files |-> loaded.files, requests |-> 1,
              out |-> TextContent(<<Seg("related_law_error", <<request.exc>>, <<>>)>>)]
        ELSE [files |-> IF Truthy(request.val)
                        THEN save_to_cache(loaded.files, cache_key, request.val, now, can_write)
                        ELSE loaded.files,
              requests |-> 1,
              out |-> TextContent(_format_search_results(request.val, "lsRlt", stripped_query,
                                                         DefaultMaxResults, NoLookups))]
      Looked(loaded) ==
        IF Truthy(loaded.val)
        THEN [files |-> loaded.files, requests |-> 0,
              out |-> TextContent(_format_search_results(loaded.val, "lsRlt", stripped_query,
                                                         DefaultMaxResults, NoLookups)
                                    \o <<Seg("cached_result", <<>>, <<>>)>>)]
        ELSE Fetched(loaded, _make_legislation_request("lsRlt", Nth(http, 1)))
  IN IF stripped_query = <<>>
     THEN [files |-> fs, requests |-> 0, out |-> TextContent(<<Seg("query_missing", <<>>, <<>>)>>)]
     ELSE Looked(load_from_cache(fs, cache_key, now))

\* ------------------------------------------------------------------------
\* The tools called against an upstream that answers anything
\* ------------------------------------------------------------------------
Tools == {"search_law", "search_english_law", "get_law_detail", "get_law_articles_range",
          "search_related_law"}
ToolQueries == {<<>>, <<" ">>, <<"x">>, <<"k">>, <<"l", " ", "x">>}
\* a search response with the laws given and their count
LawsFound(root, key, laws, count) ==
  Field(root, Pairs(<< <<"totalCnt", count>>, <<key, laws>> >>))
unit(flag, no) == Pairs(<< <<"K_articleFlag", S1(flag)>>, <<"K_articleNo", no>> >>)
\* what the upstream may answer to a request of a search tool
SearchHttp ==
  {Failed("Timeout"), Failed("ConnectionError"), Failed("HTTPError"),
   Html("page"), Body("empty"), Body("malformed"),
   Json(List(<<>>)), Json(Dict(<<>>)),
   Json(Field("LawSearch", Field("resultCode", Str(<<"01">>)))),
   Json(Field("LawSearch", S1("x"))),
   Json(LawsFound("LawSearch", "law", List(<<titled>>), S1("1"))),
   Json(LawsFound("LawSearch", "law", List(<<english, titled>>), S1("2"))),
   Json(LawsFound("LawSearch", "law", List(<<idOnly>>), S1("x"))),
   Json(LawsFound("LawSearch", "law", List(<<idOnly>>), S1("1"))),
   Json(LawsFound("LawSearch", "law", List(<<None>>), S1("1"))),
   Json(LawsFound("LawSearch", "law", titled, S1("1"))),
   Json(Envelope("lsRltSearch", "K_law", Field("K_relatedLaws", List(<<titled>>))))}
\* what the upstream may answer to the detail request of the range tool
RangeHttp ==
  DetailHttp \cup
    {Json(Field("K_law", Field("K_articles", Field("K_articleUnit", units)))) :
       units \in {List(<<unit("K_article", S1("1")), unit("K_article", S1("2"))>>),
                  List(<<unit("K_preamble", S1("1")), unit("K_article", S1("x"))>>),
                  List(<<S1("x")>>), unit("K_article", Num(1))}}

InitTools ==
  /\ clock = 0
  /\ files = <<>>
  /\ writable \in BOOLEAN
  /\ call = NoCall
  /\ done = {}
  /\ NoResponse /\ NoCleaning /\ NoUrl /\ NoContextUse /\ NoRest

\* a tool has returned, or an exception has left it; at most two calls are
\* followed, the second one of a tool that reads the cache
Called(tool, key, r) ==
  /\ files' = r.files
  /\ call' = [op |-> tool, key |-> key, at |-> clock, found |-> "none",
               requests |-> r.requests, out |-> r.out]
  /\ done' = IF tool \in done THEN done \cup {"again"} ELSE done \cup {tool}
  /\ UNCHANGED <<clock, writable>>
  /\ UNCHANGED <<result, target, extracted, normalized, search_query, max_results, text, text_again>>
  /\ UNCHANGED <<cleanVars, urlVars, ctxVars, restVars>>

SearchLaw ==
  /\ done = {}
  /\ \E query \in ToolQueries, search \in {1, 2}, first \in SearchHttp, later \in SearchHttp :
       Called("search_law", query,
              [files |-> files, requests |-> 0,
               out |-> search_law(query, search, ConfigOC, <<first, later>>)])

SearchEnglishLaw ==
  /\ done = {}
  /\ \E query \in ToolQueries, http \in SearchHttp :
       Called("search_english_law", query,
              [files |-> files, requests |-> 0, out |-> search_english_law(query, <<http>>)])

CallGetLawDetail ==
  /\ done = {}
  /\ \E mst \in Msts \cup {""}, http \in DetailHttp :
       Called("get_law_detail", <<mst>>, get_law_detail(mst, files, clock, writable, http))

GetLawArticlesRange ==
  /\ done \in {{}, {"get_law_detail"}, {"get_law_articles_range"}}
  /\ \E mst \in Msts, start_article \in {1, 2}, count \in {0, 1, 5}, http \in RangeHttp :
       Called("get_law_articles_range", <<mst>>,
              get_law_articles_range(mst, "law", start_article, count, files, clock, writable,
                                     <<http>>))

SearchRelatedLaw ==
  /\ done \in {{}, {"search_related_law"}}
  /\ \E query \in ToolQueries, http \in SearchHttp :
       Called("search_related_law", query,
              search_related_law(query, 20, 1, files, clock, writable, <<http>>))

NextTools ==
  SearchLaw \/ SearchEnglishLaw \/ CallGetLawDetail \/ GetLawArticlesRange \/ SearchRelatedLaw

SpecTools == InitTools /\ [][NextTools]_vars

\* ------------------------------------------------------------------------
\* with_context (utils/ctx_helper.py), get_global_context (server.py)
\* ------------------------------------------------------------------------
\* a LegislationContext object
Context(id) == [t |-> "context", v |-> id]
\* an injected MCP context: without request_context, with a request_context
\* that has no lifespan_context, with an attribute whose access raises, or
\* with the lifespan_context value
McpContext(shape, value) == [t |-> "mcp", v |-> shape, lifespan |-> value]

\* lines 10-31: a dict wrapper gives the value under the first of the four
\* keys it holds, anything else is the context itself
WrapperKeys == <<"app_lifespan_context", "lifespan_context", "context", "ctx">>
_normalize_lifespan_context(lifespan_context) ==
  IF IsDict(lifespan_context) /\ \E i \in 1..Len(WrapperKeys) : HasKey(lifespan_context, WrapperKeys[i])
  THEN Item(lifespan_context,
            WrapperKeys[CHOOSE i \in 1..Len(WrapperKeys) :
                          /\ HasKey(lifespan_context, WrapperKeys[i])
                          /\ \A j \in 1..(i - 1) : ~HasKey(lifespan_context, WrapperKeys[j])])
  ELSE lifespan_context

\* lines 33-57
_get_context_from_ctx(c) ==
  IF IsNone(c) THEN None
  ELSE IF c.v = "lifespan" THEN _normalize_lifespan_context(c.lifespan)
  ELSE None

\* server.py lines 58-62
get_global_context(stored) == stored

\* fallback_func(context): raises with the contexts of bad, returns a
\* result naming the context otherwise; a dict used as the context is one
\* kind of context
ContextId(context) == IF IsDict(context) THEN "dict" ELSE context.v
fallback_func(context, bad) ==
  IF ContextId(context) \in bad THEN Raise("Exception")
  ELSE Ok(<<"result", ContextId(context)>>)

\* lines 59-116: the sources are tried in the order given; tried lists the
\* contexts fallback_func was called with
RECURSIVE TrySources(_, _, _)
TrySources(sources, bad, tried) ==
  IF sources = <<>> THEN [exc |-> "ValueError", val |-> None, tried |-> tried]
  ELSE IF IsNone(sources[1]) THEN TrySources(Tail(sources), bad, tried)
  ELSE IF fallback_func(sources[1], bad).exc = ""
       THEN [exc |-> "", val |-> fallback_func(sources[1], bad).val,
             tried |-> Append(tried, sources[1])]
  ELSE TrySources(Tail(sources), bad, Append(tried, sources[1]))
with_context_LegacyFirst(c, stored, legacy, bad) ==
  TrySources(<<_get_context_from_ctx(c), legacy, get_global_context(stored)>>, bad, <<>>)
with_context(c, stored, legacy, bad) ==
  TrySources(<<_get_context_from_ctx(c), get_global_context(stored), legacy>>, bad, <<>>)

\* the calls of with_context that are checked
ContextIds == {"A", "B"}
Contexts == {Context(id) : id \in ContextIds}
LifespanValues ==
  {None} \cup Contexts
    \cup {Field(k, v) : k \in {"context", "ctx", "client"}, v \in {None, Context("A")}}
    \cup {Pairs(<< <<"ctx", Context("B")>>, <<"app_lifespan_context", Context("A")>> >>)}
InjectedContexts ==
  {None, McpContext("no_request_context", None), McpContext("no_lifespan_context", None),
   McpContext("raises", None)}
    \cup {McpContext("lifespan", v) : v \in LifespanValues}

InitContext ==
  /\ ctx \in InjectedContexts
  /\ global_context \in {None} \cup Contexts
  /\ legislation_context \in {None} \cup Contexts
  /\ failing \in SUBSET (ContextIds \cup {"dict"})
  /\ returned = None
  /\ done = {}
  /\ NoResponse /\ NoCleaning /\ NoUrl /\ NoCache /\ NoRest

WithContext ==
  /\ done = {}
  /\ returned' = with_context(ctx, global_context, legislation_context, failing)
  /\ done' = {"with_context"}
  /\ UNCHANGED <<ctx, global_context, legislation_context, failing>>
  /\ UNCHANGED <<result, target, extracted, normalized, search_query, max_results, text, text_again>>
  /\ UNCHANGED <<cleanVars, urlVars, cacheVars, restVars>>

NextContext == WithContext

SpecContext == InitContext /\ [][NextContext]_vars

\* ------------------------------------------------------------------------
\* get_cache_key called on its own (law_tools.py lines 104-107) and as the
\* tools call it (lines 4241, 4253, 4300, 4387)
\* ------------------------------------------------------------------------
\* the key of a tool's cache entry: get_cache_key(f"{target}_{mst}", section)
ToolCacheKey(tgt, id, section) == get_cache_key(tgt \o <<"_">> \o id, section)

KeyChars == {"a", "_"}
KeyStrings == UNION {[1..n -> KeyChars] : n \in 0..MaxFieldLen}
Sections == {<<"full">>, <<"summary">>}
KeyPairs == KeyStrings \X KeyStrings
KeyTriples == KeyStrings \X KeyStrings \X Sections

\* the state of a pure function's call: nothing but its arguments is set
PureCall(inputs) ==
  /\ args \in inputs
  /\ retval = None
  /\ done = {}
  /\ NoResponse /\ NoCleaning /\ NoUrl /\ NoCache /\ NoContextUse /\ NoStore /\ NoRace /\ NoLifespan
\* the function returns v
Returned(v) == [t |-> "returned", v |-> v]
Returns(v) ==
  /\ retval = None
  /\ retval' = Returned(v)
  /\ UNCHANGED args
  /\ UNCHANGED <<respVars, cleanVars, urlVars, cacheVars, ctxVars, storeVars, raceVars, lifeVars>>

InitKey ==
  PureCall({[op |-> "get_cache_key", a |-> a, b |-> b] : a \in KeyPairs, b \in KeyPairs}
             \cup {[op |-> "tool", a |-> a, b |-> b] : a \in KeyTriples, b \in KeyTriples})

\* two calls of get_cache_key(law_id, section)
GetCacheKey ==
  /\ args.op = "get_cache_key"
  /\ Returns(<<get_cache_key(args.a[1], args.a[2]), get_cache_key(args.b[1], args.b[2])>>)

\* two uses of the cache by a tool, each with its target, id and section
ToolGetCacheKey ==
  /\ args.op = "tool"
  /\ Returns(<<ToolCacheKey(args.a[1], args.a[2], args.a[3]),
               ToolCacheKey(args.b[1], args.b[2], args.b[3])>>)

NextKey == GetCacheKey \/ ToolGetCacheKey

SpecKey == InitKey /\ [][NextKey]_vars

\* ------------------------------------------------------------------------
\* categorize_laws (law_formatters.py lines 231-282)
\* ------------------------------------------------------------------------
\* 법령명한글 K_lawNameHangul, 법령명 K_lawName, 제목 K_title, 명칭
\* K_designation, 제목없음 K_noTitle
LawNameFields == <<"K_lawNameHangul", "K_lawName", "K_title", "title", "K_designation", "name">>
\* lines 277-282: the first of the name fields that holds a truthy value
_get_law_name(law) ==
  LET named_by == {i \in 1..Len(LawNameFields) :
                     HasKey(law, LawNameFields[i]) /\ Truthy(Item(law, LawNameFields[i]))}
  IN IF named_by = {} THEN <<"K_noTitle">>
     ELSE PyStr(Item(law, LawNameFields[CHOOSE i \in named_by : \A j \in named_by : i <= j]))

\* lines 252-268: the index of the category a law is appended to, 0 when
\* it is appended to none; categories is the mapping in its order, a
\* sequence of <<category, keywords>>
CategoryOf(law, categories) ==
  LET matching == {i \in 1..Len(categories) :
                     /\ categories[i][2] # <<>>
                     /\ \E k \in 1..Len(categories[i][2]) :
                          Contains(_get_law_name(law), categories[i][2][k])}
      fallback == {i \in 1..Len(categories) : categories[i][2] = <<>>}
  IN IF matching # {} THEN CHOOSE i \in matching : \A j \in matching : i <= j
     ELSE IF fallback # {} THEN CHOOSE i \in fallback : \A j \in fallback : i <= j
     ELSE 0

\* lines 231-270: the mapping category -> laws, in the order of categories
categorize_laws(laws, categories) ==
  [i \in 1..Len(categories) |->
     <<categories[i][1], SelectSeq(laws, LAMBDA law : CategoryOf(law, categories) = i)>>]

\* the calls of categorize_laws that are checked
CategoryPool ==
  { <<"finance", <<<<"x">>>>>>, <<"tax", <<<<"l">>>>>>, <<"both", <<<<"l", "x">>, <<"x">>>>>>,
    <<"K_etc", <<>>>>, <<"K_other", <<>>>> }
CategoryMaps ==
  {c \in UNION {[1..n -> CategoryPool] : n \in 0..MaxKeys} :
     \A i, j \in 1..Len(c) : i # j => c[i][1] # c[j][1]}
LawPool == {titled, named, bare, Field("K_title", S1("l"))}
LawLists == UNION {[1..n -> LawPool] : n \in 0..MaxItems}

InitCategorize ==
  PureCall({[op |-> "categorize_laws", laws |-> laws, categories |-> categories] :
              laws \in LawLists, categories \in CategoryMaps})

CategorizeLaws ==
  /\ args.op = "categorize_laws"
  /\ Returns(categorize_laws(args.laws, args.categories))

NextCategorize == CategorizeLaws

SpecCategorize == InitCategorize /\ [][NextCategorize]_vars

\* ------------------------------------------------------------------------
\* The requests search_law makes (law_tools.py lines 1582-1668)
\* ------------------------------------------------------------------------
\* lines 1582-1644: the <<query, search>> of the requests the loop makes
\* from the n-th attempt on; the loop ends where an attempt returns
RECURSIVE AttemptRequests(_, _, _, _, _)
AttemptRequests(attempts, n, original_query, http, asked) ==
  IF n > Len(attempts) THEN <<>>
  ELSE LET Asked(attempt) ==
             IF attempt.exc = "" /\ attempt.ret THEN <<>>
             ELSE AttemptRequests(attempts, n + 1, original_query, http, asked)
       IN << <<attempts[n], 1>> >>
            \o Asked(SearchAttempt(original_query, attempts[n],
                                   _make_legislation_request("law", Nth(http, asked + n))))

\* lines 1556-1668: the requests of the search proper, the body search
\* being the last one when no attempt returned and none was kept as best
SearchLawRequests(original_query, search, oc, http, asked) ==
  LET attempts == SearchAttempts(original_query)
      Finished(tried) ==
        IF tried.exc = "" /\ ~tried.ret /\ tried.val = <<>> /\ search = 1
        THEN << <<original_query, 2>> >> ELSE <<>>
  IN IF ~Truthy(oc) THEN <<>>
     ELSE AttemptRequests(attempts, 1, original_query, http, asked)
            \o Finished(TryAttempts(attempts, 1, original_query, http, asked, <<>>))

\* a response listing one law of the name given, with the totalCnt given
Hits(name, total) ==
  Json(LawsFound("LawSearch", "law", List(<<Field("K_lawNameHangul", Str(name))>>), Str(total)))
\* what the upstream may answer to one request of search_law
AttemptHttp ==
  {Failed("Timeout"), Json(Dict(<<>>)),
   Hits(<<"t">>, <<"2">>), Hits(<<"t">>, <<"1">>), Hits(<<"t">>, <<"2", "0">>),
   Hits(<<"l", "x">>, <<"1">>)}
\* queries that are no mapped keyword, with and without a space and the
\* ending 법
AttemptQueries == {<<"x">>, <<"l", " ", "x">>, <<"t", "K_beop">>, <<"l", " ", "K_beop">>}

InitAttempts ==
  PureCall({[op |-> "search_law", query |-> q, search |-> search, http |-> http] :
              q \in AttemptQueries, search \in {1, 2}, http \in [1..MaxAnswers -> AttemptHttp]})

\* search_law(query, search=search), the upstream answering the n-th
\* request with http[n]
SearchLawAttempts ==
  /\ args.op = "search_law"
  /\ Returns([out |-> search_law(args.query, args.search, ConfigOC, args.http),
              requests |-> SearchLawRequests(Strip(args.query), args.search, ConfigOC, args.http, 0)])

NextAttempts == SearchLawAttempts

SpecAttempts == InitAttempts /\ [][NextAttempts]_vars

\* ------------------------------------------------------------------------
\* save_to_cache and load_from_cache called one after the other
\* (law_tools.py lines 122-163)
\* ------------------------------------------------------------------------
\* values json.dump accepts: decoded JSON, and values holding a tuple
StoreData ==
  {None, S1("x"), List(<<Num(1)>>), Tuple(<<Num(1)>>), Field("a", List(<<Tuple(<<>>)>>))}

InitStore ==
  /\ clock = 0
  /\ files = <<>>
  /\ writable \in BOOLEAN
  /\ call = NoCall
  /\ done = {}
  /\ NoResponse /\ NoCleaning /\ NoUrl /\ NoContextUse /\ NoRest

\* save_to_cache(key, data)
SaveToCache ==
  /\ \E key \in CacheKeys, data \in StoreData :
       /\ files' = save_to_cache(files, key, data, clock, writable)
       /\ call' = [op |-> "save_to_cache", key |-> key, at |-> clock,
                    found |-> Found(files, key, clock), requests |-> 0, out |-> None]
       /\ saved' = [k \in DOMAIN saved \cup {key} |->
                      IF k = key THEN [data |-> data, at |-> clock, written |-> writable]
                      ELSE saved[k]]
  /\ UNCHANGED <<clock, writable>>
  /\ UNCHANGED <<respVars, cleanVars, urlVars, ctxVars, pureVars, raceVars, lifeVars>>

NextStore == Tick \/ SaveToCache \/ LoadFromCache

SpecStore == InitStore /\ [][NextStore]_vars

\* ------------------------------------------------------------------------
\* save_to_cache and load_from_cache step by step on one cache file
\* (law_tools.py lines 113-163).  Nothing in the code orders the calls of
\* two threads or two server processes on the file: every interleaving of
\* their system calls is a behaviour.
\* ------------------------------------------------------------------------
\* The JSON text of a cache entry as tokens: "{" stands for the opening up
\* to the first element of the data, a list, "}" for the closing, and each
\* element is one token.
Doc(data) == <<"{">> \o [i \in 1..Len(data.v) |-> data.v[i].v[1]] \o <<"}">>
\* line 135, open(cache_file, 'w'): the text is written through a buffer,
\* one write per full buffer and one at close; BufferSize tokens fill it
BufferSize == 2
Chunks(data) == (Len(Doc(data)) + BufferSize - 1) \div BufferSize
\* the k-th write of the text of data puts these tokens at this offset
ChunkAt(data, k) ==
  SubSeq(Doc(data), (k - 1) * BufferSize + 1,
         IF k * BufferSize < Len(Doc(data)) THEN k * BufferSize ELSE Len(Doc(data)))
\* the content after writing chunk at offset: the file grows as needed and
\* bytes never written read as "0"
WriteAt(tokens, offset, chunk) ==
  [i \in 1..(IF Len(tokens) > offset + Len(chunk) THEN Len(tokens) ELSE offset + Len(chunk)) |->
     IF i > offset /\ i <= offset + Len(chunk) THEN chunk[i - offset]
     ELSE IF i <= Len(tokens) THEN tokens[i] ELSE "0"]
\* lines 157-160, json.load(f).get("data"): the data of a well-formed
\* text, JSONDecodeError for anything else
json_load(tokens) ==
  IF /\ Len(tokens) >= 2 /\ tokens[1] = "{" /\ tokens[Len(tokens)] = "}"
     /\ \A i \in 2..(Len(tokens) - 1) : tokens[i] \notin {"{", "}", "0"}
  THEN Ok(List([i \in 1..(Len(tokens) - 2) |-> S1(tokens[i + 1])]))
  ELSE Raise("JSONDecodeError")

Savers == {"s1", "s2"}
RaceData == {List(<<S1("a"), S1("a")>>), List(<<S1("b"), S1("b")>>), List(<<S1("b")>>)}
\* the entry an earlier call left behind, if any
OldData == List(<<S1("x")>>)

InitRace ==
  /\ clock \in {0, CACHE_DAYS}
  /\ disk \in {NoFile, [exists |-> TRUE, mtime |-> 0, tokens |-> Doc(OldData)]}
  /\ savers = [s \in Savers |-> [pc |-> "idle", data |-> None, k |-> 0, open |-> FALSE]]
  /\ loader = [pc |-> "idle", out |-> None, unlinked |-> NoFile]
  /\ files = <<>> /\ writable = TRUE /\ call = NoCall
  /\ done = {}
  /\ NoResponse /\ NoCleaning /\ NoUrl /\ NoContextUse /\ NoPureCall /\ NoStore /\ NoLifespan

RaceUnchanged ==
  /\ UNCHANGED <<respVars, cleanVars, urlVars, cacheVars, ctxVars, pureVars, storeVars, lifeVars>>

\* lines 124-135: save_to_cache(key, data) up to open(cache_file, 'w'),
\* which creates the file or empties it
SaveOpen(s) ==
  /\ savers[s].pc = "idle"
  /\ \E data \in RaceData :
       savers' = [savers EXCEPT ![s] = [pc |-> "writing", data |-> data, k |-> 1, open |-> TRUE]]
  /\ disk' = [exists |-> TRUE, mtime |-> clock, tokens |-> <<>>]
  /\ UNCHANGED loader
  /\ RaceUnchanged

\* line 136: one write of json.dump's text at the offset of this call's
\* file object; the last one is made by the close that ends the with
\* block.  A file unlinked while open is written to without reappearing.
SaveWrite(s) ==
  /\ savers[s].pc = "writing"
  /\ savers' = [savers EXCEPT ![s].k = @ + 1,
                              ![s].pc = IF savers[s].k = Chunks(savers[s].data) THEN "done" ELSE @]
  /\ disk' = IF savers[s].open
             THEN [exists |-> TRUE, mtime |-> clock,
                   tokens |-> WriteAt(disk.tokens, (savers[s].k - 1) * BufferSize,
                                      ChunkAt(savers[s].data, savers[s].k))]
             ELSE disk
  /\ UNCHANGED loader
  /\ RaceUnchanged

\* line 149: cache_file.exists()
LoadExists ==
  /\ loader.pc = "idle"
  /\ loader' = [loader EXCEPT !.pc = IF disk.exists THEN "exists" ELSE "done"]
  /\ UNCHANGED <<disk, savers>>
  /\ RaceUnchanged

\* line 152 with lines 113-120: is_cache_valid(cache_file)
LoadCheck ==
  /\ loader.pc = "exists"
  /\ loader' = [loader EXCEPT !.pc = IF disk.exists /\ disk.mtime > clock - CACHE_DAYS
                                      THEN "valid" ELSE "expired"]
  /\ UNCHANGED <<disk, savers>>
  /\ RaceUnchanged

\* lines 153-154: cache_file.unlink() and return None; a file already gone
\* raises FileNotFoundError, which line 161 turns into None
LoadUnlink ==
  /\ loader.pc = "expired"
  /\ loader' = [pc |-> "done", out |-> None, unlinked |-> disk]
  /\ disk' = NoFile
  /\ savers' = [s \in Savers |-> [savers[s] EXCEPT !.open = FALSE]]
  /\ RaceUnchanged

\* lines 156-163: open, json.load and .get("data"); whatever is raised
\* makes the call return None
LoadRead ==
  /\ loader.pc = "valid"
  /\ loader' = [loader EXCEPT !.pc = "done",
                               !.out = IF disk.exists /\ json_load(disk.tokens).exc = ""
                                       THEN json_load(disk.tokens).val ELSE None]
  /\ UNCHANGED <<disk, savers>>
  /\ RaceUnchanged

NextRace ==
  \/ \E s \in Savers : SaveOpen(s)
  \/ \E s \in Savers : SaveWrite(s)
  \/ LoadExists \/ LoadCheck \/ LoadUnlink \/ LoadRead

SpecRace == InitRace /\ [][NextRace]_vars

\* ------------------------------------------------------------------------
\* The global context and the server lifespan (server.py lines 48-147)
\* ------------------------------------------------------------------------
\* legislation_lifespan is the lifespan handed to FastMCP (line 156): the
\* framework enters it when a server run starts and leaves it when the run
\* ends, once for the process or once for every client session of the
\* streamable-http transport (line 220).  The runs share one event loop: a
\* run is not interrupted between two awaits, so the part before the yield
\* and the finally block are one step each.  Tools read the context from
\* worker threads.
Runs == {"A", "B"}

\* lines 85-105: the context made at import time and stored with
\* set_global_context, when there is a configuration and making it works
InitLifespan ==
  /\ legislation_context \in {None, Context("import")}
  /\ global_context = legislation_context
  /\ lifespans = [r \in Runs |-> [pc |-> "idle", ctx |-> None]]
  /\ context_lock = ""
  /\ getter = [pc |-> "idle", out |-> None, during |-> [r \in Runs |-> "idle"]]
  /\ ctx = None /\ failing = {} /\ returned = None
  /\ done = {}
  /\ NoResponse /\ NoCleaning /\ NoUrl /\ NoCache /\ NoPureCall /\ NoStore /\ NoRace

LifespanUnchanged ==
  /\ UNCHANGED <<legislation_context, ctx, failing, returned>>
  /\ UNCHANGED <<respVars, cleanVars, urlVars, cacheVars, pureVars, storeVars, raceVars>>

\* lines 51-56: set_global_context(c), under the lock
set_global_context(c) ==
  /\ context_lock = ""
  /\ global_context' = c

\* lines 108-137: the run makes its context and stores it, then yields
LifespanEnter(r) ==
  /\ lifespans[r].pc = "idle"
  /\ lifespans' = [lifespans EXCEPT ![r] = [pc |-> "body", ctx |-> Context(r)]]
  /\ set_global_context(Context(r))
  /\ UNCHANGED <<context_lock, getter>>
  /\ LifespanUnchanged

\* lines 118-129, 139-147: there is no configuration or making the
\* client or the context raises; the exception is logged and raised again
\* and the finally block clears the global context
LifespanFails(r) ==
  /\ lifespans[r].pc = "idle"
  /\ context_lock = ""
  /\ lifespans' = [lifespans EXCEPT ![r].pc = "failed"]
  /\ global_context' = None
  /\ UNCHANGED <<context_lock, getter>>
  /\ LifespanUnchanged

\* lines 142-147: the body is over, normally or by an exception; the finally
\* block clears the global context under the lock
LifespanExit(r) ==
  /\ lifespans[r].pc = "body"
  /\ context_lock = ""
  /\ lifespans' = [lifespans EXCEPT ![r].pc = "exited"]
  /\ global_context' = None
  /\ UNCHANGED <<context_lock, getter>>
  /\ LifespanUnchanged

\* lines 58-62: a thread enters get_global_context and takes the lock
GetAcquire ==
  /\ getter.pc \in {"idle", "returned"}
  /\ context_lock = ""
  /\ context_lock' = "getter"
  /\ getter' = [getter EXCEPT !.pc = "locked"]
  /\ UNCHANGED <<global_context, lifespans>>
  /\ LifespanUnchanged

\* line 62: it returns the stored context and the lock is released
GetReturn ==
  /\ getter.pc = "locked"
  /\ context_lock' = ""
  /\ getter' = [pc |-> "returned", out |-> get_global_context(global_context),
                 during |-> [r \in Runs |-> lifespans[r].pc]]
  /\ UNCHANGED <<global_context, lifespans>>
  /\ LifespanUnchanged

NextLifespan ==
  \/ \E r \in Runs : LifespanEnter(r) \/ LifespanFails(r) \/ LifespanExit(r)
  \/ GetAcquire \/ GetReturn

SpecLifespan == InitLifespan /\ [][NextLifespan]_vars

\* ------------------------------------------------------------------------
\* _format_law_service_history called on its own (law_tools.py lines
\* 305-488)
\* ------------------------------------------------------------------------
InitHistory ==
  PureCall({[op |-> "_format_law_service_history", data |-> in[1], search_query |-> q] :
              in \in HistoryInputs, q \in Queries})

FormatLawServiceHistory ==
  /\ args.op = "_format_law_service_history"
  /\ Returns(_format_law_service_history(args.data, args.search_query))

NextHistory == FormatLawServiceHistory

SpecHistory == InitHistory /\ [][NextHistory]_vars

\* ------------------------------------------------------------------------
\* Properties of the envelope resolver
\* ------------------------------------------------------------------------
\* the strings held anywhere in a value
RECURSIVE StringsOf(_)
StringsOf(x) ==
  CASE IsStr(x) -> {x.v}
    [] IsList(x) -> UNION {StringsOf(x.v[i]) : i \in 1..Len(x.v)}
    [] IsDict(x) -> UNION {StringsOf(x.v[i][2]) : i \in 1..Len(x.v)}
    [] OTHER -> {}
\* no tag or entity character in any string of x
NoHtml(x) == \A s \in StringsOf(x) : \A i \in 1..Len(s) : s[i] \notin {"<", ">", "&"}
\* no leading, trailing or repeated whitespace in any string of x
NormalSpaces(x) ==
  \A s \in StringsOf(x) :
    /\ s # <<>> => (s[1] \notin Whitespace /\ s[Len(s)] \notin Whitespace)
    /\ \A i \in 1..(Len(s) - 1) : ~(s[i] \in Whitespace /\ s[i + 1] \in Whitespace)

\* res is {outer_key: {inner_key: value}} for the table entry of t
IsEnvelopeOf(res, t) ==
  /\ t \in MapTargets
  /\ IsDict(res) /\ Len(res.v) = 1
  /\ res.v[1][1] = MapEntry(t)[2]
  /\ IsDict(res.v[1][2]) /\ Len(res.v[1][2].v) = 1
  /\ res.v[1][2].v[1][1] = MapEntry(t)[3]
InnerValue(res) == res.v[1][2].v[1][2]

\* the synthetic object of C1: the envelope of the target around a sequence
\* of one record
C1_Case ==
  /\ "normalize" \in done
  /\ IsEnvelopeOf(result, target)
  /\ IsList(InnerValue(result)) /\ Len(InnerValue(result).v) = 1
  /\ IsDict(InnerValue(result).v[1])
C1_Record == InnerValue(result).v[1]

C2_SingleMapping ==
  ("extract" \in done /\ IsEnvelopeOf(result, target) /\ IsDict(InnerValue(result)))
    => extracted = Triple(<<InnerValue(result)>>, 1, None)
C2_Witness ==
  /\ "extract" \in done /\ IsEnvelopeOf(result, target) /\ target = "ordinfd"
  /\ InnerValue(result) = Field("K_lawId", Str(<<"l", "t">>))
  /\ extracted.items = <<InnerValue(result)>> /\ extracted.error = None

\* C3: whenever the response holds a string under the top-level key "Law",
\* extract_items_from_response returns ([], 0, that string) for every
\* target and whatever other keys the response holds, and
\* normalize_response reports total_count = 0 and a non-null error.
C3_Case == IsDict(result) /\ HasKey(result, "Law") /\ IsStr(Item(result, "Law"))
C3_LawString ==
  /\ ("extract" \in done /\ C3_Case)
       => extracted = Triple(<<>>, 0, Item(result, "Law"))
  /\ ("normalize" \in done /\ C3_Case)
       => (normalized.total_count = 0 /\ normalized.error # None)
\* the message comes together with a populated envelope of the target
C3_Witness ==
  /\ done = {"extract", "normalize"} /\ C3_Case
  /\ target = "law"
  /\ HasKey(result, "LawSearch")
  /\ Item(result, "LawSearch") = Field("law", List(<<r0>>))
  /\ extracted.error = Item(result, "Law")

\* what entry i of the table yields, read off the response
EntryValue(res, i) ==
  DictGet(Item(res, RESPONSE_STRUCTURE_MAP[i][2]), RESPONSE_STRUCTURE_MAP[i][3], None)
EntryYields(res, i) ==
  /\ HasKey(res, RESPONSE_STRUCTURE_MAP[i][2])
  /\ IsDict(Item(res, RESPONSE_STRUCTURE_MAP[i][2]))
  /\ \/ IsDict(EntryValue(res, i))
     \/ IsList(EntryValue(res, i)) /\ EntryValue(res, i).v # <<>>
EntryItems(res, i) ==
  IF IsDict(EntryValue(res, i)) THEN <<EntryValue(res, i)>> ELSE EntryValue(res, i).v
FirstYielding(res) ==
  CHOOSE i \in MapIndex : EntryYields(res, i) /\ \A j \in 1..(i - 1) : ~EntryYields(res, j)

\* the target is in the table and its outer envelope is a mapping whose
\* inner key is absent or holds an empty sequence
C5_Case ==
  /\ "extract" \in done
  /\ IsDict(result) /\ ~C3_Case
  /\ target \in MapTargets
  /\ HasKey(result, MapEntry(target)[2])
  /\ IsDict(Item(result, MapEntry(target)[2]))
  /\ DictGet(Item(result, MapEntry(target)[2]), MapEntry(target)[3], List(<<>>)) = List(<<>>)

C6_Case ==
  /\ "extract" \in done
  /\ IsDict(result) /\ ~C3_Case
  /\ \/ target = NoTarget
     \/ target \notin MapTargets
     \/ ~HasKey(result, MapEntry(target)[2])
  /\ \E i \in MapIndex : EntryYields(result, i)
GenericQualifies(res, k) == HasKey(res, k) /\ (IsList(Item(res, k)) \/ IsDict(Item(res, k)))
GenericOrder == <<"K_law", "Law", "items", "data", "result">>
FirstGeneric(res) ==
  GenericOrder[CHOOSE i \in 1..5 : /\ GenericQualifies(res, GenericOrder[i])
                                  /\ \A j \in 1..(i - 1) : ~GenericQualifies(res, GenericOrder[j])]
C7_Expected(res) ==
  IF \E i \in 1..5 : GenericQualifies(res, GenericOrder[i])
  THEN LET value == Item(res, FirstGeneric(res))
       IN /\ extracted.items = (IF IsDict(value) THEN <<value>> ELSE value.v)
          /\ extracted.count = Len(extracted.items)
          /\ extracted.error = None
  ELSE extracted.items = <<>> /\ extracted.count = 0 /\ extracted.error # None

\* C7 as stated: when no table envelope yields items, the result is the
\* value of the first of the generic keys 법령, Law, items, data, result that
\* holds a sequence or a mapping (a mapping wrapped into a sequence of one),
\* and ([], 0, e) with a non-null e when none does.
C7_Original ==
  ("extract" \in done /\ IsDict(result) /\ ~C3_Case
     /\ \A i \in MapIndex : ~EntryYields(result, i))
    => C7_Expected(result)

\* the target-specific step has nothing to return: the target is None or
\* unknown, or its outer key is absent or no mapping, or its inner value is
\* neither a sequence nor a mapping
C7_TargetStepSilent ==
  \/ target = NoTarget
  \/ target \notin MapTargets
  \/ ~HasKey(result, MapEntry(target)[2])
  \/ ~IsDict(Item(result, MapEntry(target)[2]))
  \/ LET val == DictGet(Item(result, MapEntry(target)[2]), MapEntry(target)[3], List(<<>>))
     IN ~IsList(val) /\ ~IsDict(val)

\* C7 amended: the same, provided the response holds no "Law" message and
\* the target-specific step has nothing to return (when the target's own
\* envelope holds an empty or missing sequence the result is ([], 0, None)
\* and the generic keys are not consulted).
C7_Amended ==
  ("extract" \in done /\ IsDict(result) /\ ~C3_Case /\ C7_TargetStepSilent
     /\ \A i \in MapIndex : ~EntryYields(result, i))
    => C7_Expected(result)
\* 법령 holds a string and is passed over, data holds a mapping
C7_Witness ==
  /\ "extract" \in done /\ IsDict(result) /\ ~C3_Case /\ C7_TargetStepSilent
  /\ \A i \in MapIndex : ~EntryYields(result, i)
  /\ Keys(result) = <<"data", "K_law">>
  /\ IsStr(Item(result, "K_law"))
  /\ extracted = Triple(<<r1>>, 1, None)

\* C8: every NormalizedResult of normalize_response, for every response
\* (empty and None included) and every target, has
\* success = (total_count > 0).
C8_SuccessIffCount ==
  "normalize" \in done => (normalized.success = (normalized.total_count > 0))
\* zero hits under the target's own envelope: no error and no success
C8_Witness ==
  /\ "normalize" \in done
  /\ normalized.error = None /\ normalized.total_count = 0 /\ ~normalized.success
  /\ target = "prec"

\* the kinds of the segments of a text, in order
Kinds(t) == [i \in 1..Len(t) |-> t[i].kind]
HasKind(t, k) == \E i \in 1..Len(t) : t[i].kind = k
\* the 'no search results' text of line 781 and the 'parse failure' text of
\* line 779
IsNoResultsText(t) == Kinds(t) = <<"no_results">>
IsParseFailureText(t) == Kinds(t) = <<"parse_failure", "available_keys">>

\* the envelope of the target holds a string at its inner key
C4_StringInner == IsEnvelopeOf(result, target) /\ IsStr(InnerValue(result))
\* C4: when the value at a known envelope's inner key is a string instead
\* of a sequence or mapping, the resolver returns empty items, count 0 and
\* no error, and the text formatter renders the response as zero results.
C4_StringIsEmpty ==
  C4_StringInner =>
    /\ "extract" \in done => extracted = Triple(<<>>, 0, None)
    /\ "format" \in done => IsNoResultsText(text)

\* every root key the resolver or the formatter knows
RecognizedRoots ==
  {RESPONSE_STRUCTURE_MAP[i][2] : i \in MapIndex} \cup {e[2] : e \in SpecialRoots}
    \cup {"LawSearch", "LawService", "lsRltSearch", "K_customClass", "K_law", "Law"}
\* the envelope of the target is there and holds an empty sequence
C9_EmptyEnvelope == IsEnvelopeOf(result, target) /\ InnerValue(result) = List(<<>>)
\* the response is a mapping with keys, none of them a recognized root
C9_NoEnvelope ==
  /\ IsDict(result) /\ result.v # <<>>
  /\ \A i \in 1..Len(result.v) : result.v[i][1] \notin RecognizedRoots \cup {target}
\* C9: when the recognized envelope key of the target is present but holds
\* no items, _format_search_results renders the 'no search results' text;
\* when no recognized envelope key is present, it renders the 'parse
\* failure' text.
C9_EnvelopeTellsApart ==
  "format" \in done =>
    /\ C9_EmptyEnvelope => IsNoResultsText(text)
    /\ C9_NoEnvelope => IsParseFailureText(text)

\* the title candidate fields (lines 827-853) and the id fields (lines
\* 969-1059) of the formatter
TitleFields == {title_keys[i] : i \in 1..Len(title_keys)} \cup {"K_lawNameEnglish", "K_basicInfo"}
IdFields ==
  {"K_lawSerialNo", "MST", "mst", "lawMst", "K_lawId", "ID", "id", "lawId", "K_relatedLawId",
   "K_oldNewSerialNo", "K_oldNewMST", "K_admRuleSerialNo", "K_admRuleMST",
   "K_treatySerialNo", "K_treatyMST", "K_ordinanceSerialNo", "K_ordinanceMST", "K_serialNo"}
    \cup {thdCmp_mst_keys[i] : i \in 1..Len(thdCmp_mst_keys)}
Lacks(item, fields) == IsDict(item) /\ \A i \in 1..Len(item.v) : item.v[i][1] \notin fields
\* the response is the formatter's envelope of the target around one record
C10_OneRecord ==
  /\ IsDict(result) /\ Len(result.v) = 1
  /\ result.v[1][1] = FormatRoot(target)[1] /\ target \notin {"lsRlt", "lsJoHstInf"}
  /\ IsDict(result.v[1][2]) /\ Len(result.v[1][2].v) = 1
  /\ result.v[1][2].v[1][1] = FormatRoot(target)[2]
  /\ result.v[1][2].v[1][2] \in {List(<<it>>) : it \in ItemPool}
C10_Record == result.v[1][2].v[1][2].v[1]
\* C10: _format_search_results returns a text and never raises; an item
\* lacking every title candidate field is rendered with the placeholder
\* title, and an item lacking every id field is rendered without a
\* next-call hint rather than failing.
C10_PlaceholderNoHint ==
  "format" \in done =>
    /\ text # <<>>
    /\ (C10_OneRecord /\ Lacks(C10_Record, TitleFields)) =>
         (HasKind(text, "title_missing") /\ ~HasKind(text, "title"))
    /\ (C10_OneRecord /\ Lacks(C10_Record, IdFields)) =>
         (HasKind(text, "header") /\ ~HasKind(text, "hint"))

\* ------------------------------------------------------------------------
\* Properties of the sanitizer called directly
\* ------------------------------------------------------------------------
\* C12: clean_html_tags is idempotent: for every string x, entities that
\* decode to tag or entity characters included, cleaning the cleaned string
\* again returns the cleaned string.
C12_Idempotent ==
  (done = {"clean_html_tags"} /\ Len(cleaned) = 2) => cleaned[2] = cleaned[1]

\* every string stored under a key of fields, at any depth of the value in,
\* is the sanitized string in out, and out has the shape of in
RECURSIVE ListedClean(_, _, _)
ListedClean(in, out, fields) ==
  CASE IsDict(in) ->
         /\ IsDict(out) /\ Len(out.v) = Len(in.v)
         /\ \A i \in 1..Len(in.v) :
              /\ out.v[i][1] = in.v[i][1]
              /\ (in.v[i][1] \in fields /\ IsStr(in.v[i][2]))
                   => out.v[i][2] = clean_html_tags(in.v[i][2])
              /\ ListedClean(in.v[i][2], out.v[i][2], fields)
    [] IsList(in) ->
         /\ IsList(out) /\ Len(out.v) = Len(in.v)
         /\ \A i \in 1..Len(in.v) : ListedClean(in.v[i], out.v[i], fields)
    [] OTHER -> TRUE

\* C13: with an allow-list supplied, clean_dict_values and
\* clean_search_result sanitize every string stored under an allow-listed
\* field name at every nesting depth of the record, through nested mappings
\* and sequences, also when the enclosing container's own key is not in
\* the allow-list.
C13_ListedAtEveryDepth ==
  (done \in {{"clean_dict_values"}, {"clean_search_result"}} /\ fields_to_clean # {})
    => ListedClean(dirty, cleaned[1], fields_to_clean)

\* ------------------------------------------------------------------------
\* Properties of the formatter's output
\* ------------------------------------------------------------------------
\* C14: the formatter is deterministic: a second call of
\* _format_search_results with the same data, target, search_query and
\* max_results returns the text of the first call, whatever was called in
\* between.
C14_SameTextAgain == "format_again" \in done => text_again = text

\* the items the formatter extracts from the response (lines 601-772)
C15_Extraction == TargetData(result, target, <<>>)
C15_Count == Len(AsList(C15_Extraction.val).v)
C15_Case ==
  /\ "format" \in done
  /\ C15_Extraction.exc = "" /\ ~C15_Extraction.ret
  /\ C15_Count > 0
C15_Shown == IF C15_Count < max_results THEN C15_Count ELSE max_results
C15_Indexes(t) == SelectSeq(t, LAMBDA seg : seg.kind = "index")
C15_Layout(t) ==
  /\ t # <<>> /\ t[1].kind = "header"
  /\ t[1].a = search_query /\ t[1].b[1] = ToString(C15_Count)
  /\ C15_Indexes(t) = [i \in 1..C15_Shown |-> Seg("index", <<ToString(i)>>, <<>>)]
  /\ Len(SelectSeq(t, LAMBDA seg : seg.kind = "blank")) = C15_Shown
  /\ (Len(t[1].b) = 2) <=> (C15_Count > max_results)
  /\ Len(t[1].b) = 2 => t[1].b[2] = ToString(max_results)
  /\ HasKind(t, "more_results") <=> (C15_Count > max_results)
  /\ HasKind(t, "more_results") => t[Len(t)].kind = "more_results"
\* C15: for a response from which n > 0 items are extracted the text is a
\* header holding the query and the count n, then exactly
\* min(n, max_results) item blocks numbered 1..min(n, max_results) in
\* order; the 'top max_results shown' note and the trailing 'more results'
\* line appear exactly when n > max_results.
C15_HeaderAndBlocks == C15_Case => C15_Layout(text)

\* ------------------------------------------------------------------------
\* Properties of the URL builder
\* ------------------------------------------------------------------------
\* the values the query string of u carries for the parameter key
C19_Values(u, key) == {u.query[i][2] : i \in {j \in 1..Len(u.query) : u.query[j][1] = key}}
C19_Detail == is_detail /\ (HasKey(params, "ID") \/ HasKey(params, "MST"))
\* C19: for every target, params and is_detail the URL carries the query
\* parameters OC and target and type=JSON, also when params supplies
\* another type, and it addresses lawService.do exactly when is_detail is
\* true and params holds ID or MST, lawSearch.do in every other case.
C19_UrlShape ==
  done = {"_generate_api_url"} =>
    /\ C19_Values(url, "OC") # {} /\ C19_Values(url, "target") # {}
    /\ C19_Values(url, "type") = {<<"JSON">>}
    /\ \A i, j \in 1..Len(url.query) : url.query[i][1] = url.query[j][1] => i = j
    /\ url.base = (IF C19_Detail THEN service_base_url ELSE search_base_url)
C19_Witness ==
  /\ done = {"_generate_api_url"}
  /\ HasKey(params, "type") /\ Item(params, "type") = Str(<<"XML">>)
  /\ is_detail /\ HasKey(params, "MST")
  /\ url.base = service_base_url

\* ------------------------------------------------------------------------
\* Properties of the cache
\* ------------------------------------------------------------------------
\* the step is a call of load_from_cache on key
C16_Loads(key) == call' # call /\ call'.op = "load_from_cache" /\ call'.key = key
\* C16: the cache has a fixed 7-day TTL by file mtime: load_from_cache never
\* returns the data of an entry whose file mtime is 7 days or more before
\* the current time; for such an entry it returns None and removes the
\* file, and for a missing entry it returns None.
C16_SevenDayTtl ==
  [][\A key \in CacheKeys :
       C16_Loads(key) =>
         /\ key \notin DOMAIN files => (call'.out = None /\ files' = files)
         /\ (key \in DOMAIN files /\ clock - files[key].mtime >= 7)
              => (call'.out = None /\ key \notin DOMAIN files')]_vars
C16_Witness ==
  /\ call.op = "load_from_cache" /\ call.found = "expired" /\ call.out = None
  /\ call.key \notin DOMAIN files

\* the step is a call of get_law_detail(mst)
C17_Calls(mst) == call' # call /\ call'.op = "get_law_detail" /\ call'.key = <<mst>>
\* a summary of mst is stored and less than 7 days old
C17_Stored(mst) ==
  /\ SummaryKey(mst) \in DOMAIN files
  /\ clock - files[SummaryKey(mst)].mtime < 7
C18_DetailReturned(mst) ==
  /\ call.op = "get_law_detail" /\ call.key = <<mst>>
  /\ call.out.type = "text" /\ Kinds(call.out.text) = <<"law_detail">>
\* the step is a call of get_law_article_by_key(mst, "law", article_key)
C18_LooksUp(mst) ==
  call' # call /\ call'.op = "get_law_article_by_key" /\ call'.key = <<mst>>
C18_NoCachedData(out) == out.type = "text" /\ Kinds(out.text) = <<"no_cached_data">>
\* C18: after a get_law_detail(mst) call that returned without error,
\* get_law_article_by_key(mst, "law", article_key) finds the law's full
\* data in the cache and does not answer 'no cached data, call
\* get_law_detail first'; so calling get_law_detail(mst) and retrying,
\* whenever that answer was given, makes the lookup proceed.
C18_DetailThenArticle ==
  [][\A mst \in Msts :
       (C18_DetailReturned(mst) /\ clock - call.at < 7 /\ C18_LooksUp(mst))
         => ~C18_NoCachedData(call'.out)]_vars

\* ------------------------------------------------------------------------
\* Properties of with_context
\* ------------------------------------------------------------------------
\* the three sources in the order of the claim, and those that hold a
\* context
C20_Sources == <<_get_context_from_ctx(ctx), global_context, legislation_context>>
C20_Available == {i \in 1..3 : ~IsNone(C20_Sources[i])}
C20_Succeeds(i) == i \in C20_Available /\ ContextId(C20_Sources[i]) \notin failing
\* C20: with_context tries the context extracted from the injected ctx,
\* then the lock-guarded global context, then the legacy module variable,
\* and returns the result of fallback_func for the first source with which
\* fallback_func completes without raising; it raises ValueError only when
\* no source is available or fallback_func failed with every available
\* source.
C20_FirstWorkingSource ==
  done = {"with_context"} =>
    /\ \A i \in 1..3 :
         (C20_Succeeds(i) /\ \A j \in 1..(i - 1) : ~C20_Succeeds(j)) =>
           /\ returned.exc = ""
           /\ returned.val = <<"result", ContextId(C20_Sources[i])>>
           /\ returned.tried = SelectSeq(SubSeq(C20_Sources, 1, i), LAMBDA c : ~IsNone(c))
    /\ (returned.exc # "") <=> (\A i \in 1..3 : ~C20_Succeeds(i))
    /\ returned.exc # "" => returned.exc = "ValueError"
C20_Witness ==
  /\ done = {"with_context"}
  /\ ~IsNone(C20_Sources[1]) /\ ~C20_Succeeds(1)
  /\ ~IsNone(global_context) /\ ~C20_Succeeds(2)
  /\ C20_Succeeds(3)
  /\ returned.exc = "" /\ Len(returned.tried) = 3

\* ------------------------------------------------------------------------
\* Properties of the tools
\* ------------------------------------------------------------------------
\* C11: for every outcome of the upstream HTTP call (timeout, connection
\* error, HTTP error status, HTML body, empty body, malformed JSON,
\* non-object JSON, upstream resultCode error, unexpected envelope shape),
\* each of search_law, search_english_law, get_law_detail,
\* get_law_articles_range and search_related_law returns a TextContent and
\* never propagates an exception to its caller.
C11_AlwaysTextContent == call.op \in Tools => call.out.type = "text"

\* ------------------------------------------------------------------------
\* The count of the resolver
\* ------------------------------------------------------------------------
\* C30: in every result of extract_items_from_response and
\* normalize_response the reported count equals the number of items
\* returned, and error is non-null only when items is empty; the upstream
\* totalCnt is never used, so the count never exceeds the page returned.
C30_CountIsLength ==
  /\ "extract" \in done =>
       /\ extracted.count = Len(extracted.items)
       /\ extracted.error # None => extracted.items = <<>>
  /\ "normalize" \in done =>
       /\ normalized.total_count = Len(normalized.items)
       /\ normalized.error # None => normalized.items = <<>>
C30_Witness ==
  /\ done = {"extract", "normalize"}
  /\ target = "law"
  /\ HasKey(result, "LawSearch") /\ IsDict(Item(result, "LawSearch"))
  /\ DictGet(Item(result, "LawSearch"), "totalCnt", None) = Num(5)
  /\ extracted.count = 2 /\ normalized.total_count = 2 /\ Len(normalized.items) = 2

\* ------------------------------------------------------------------------
\* Properties of the cache keys
\* ------------------------------------------------------------------------
\* C29: cache keys are injective over their components: two get_cache_key
\* calls with different (law_id, section) pairs, and two tool-level cache
\* uses with different (target, id, section), never give the same key, so
\* they never share a cache file.
C29_Injective == (retval # None /\ args.a # args.b) => retval.v[1] # retval.v[2]

\* ------------------------------------------------------------------------
\* Properties of categorize_laws
\* ------------------------------------------------------------------------
\* the first category, in the given order, one of whose keywords occurs in
\* the law's name; the last category for a law that matches none
C25_Category(law, categories) ==
  LET matching == {i \in 1..Len(categories) :
                     \E k \in 1..Len(categories[i][2]) :
                       Contains(_get_law_name(law), categories[i][2][k])}
  IN IF matching # {} THEN CHOOSE i \in matching : \A j \in matching : i <= j
     ELSE Len(categories)
RECURSIVE C25_Total(_, _)
C25_Total(categorized, i) ==
  IF i > Len(categorized) THEN 0 ELSE Len(categorized[i][2]) + C25_Total(categorized, i + 1)
\* C25: categorize_laws places every input law in exactly one category:
\* the first category, in the given order, one of whose keywords occurs in
\* the law's name, a law matching no category going to the last category;
\* the category lists together hold each input law once, none dropped and
\* none duplicated, for every categories mapping.
C25_EveryLawOnce ==
  (retval # None /\ args.op = "categorize_laws") =>
    /\ \A i \in 1..Len(args.categories) :
         retval.v[i][2] = SelectSeq(args.laws, LAMBDA law : C25_Category(law, args.categories) = i)
    /\ C25_Total(retval.v, 1) = Len(args.laws)

\* ------------------------------------------------------------------------
\* Properties of the change-history formatter
\* ------------------------------------------------------------------------
\* the history given to the call, and the call having rendered a history
C24_History == Item(Item(args.data, "LawService"), "law").v
C24_Rendered ==
  /\ retval # None /\ args.op = "_format_law_service_history"
  /\ retval.v[1].kind = "history_header"
\* the key of an entry as the three values, and as the text built from them
C24_Values(item) ==
  <<DictGet(DictGet(item, "K_lawInfo", Dict(<<>>)), "K_lawSerialNo", Str(<<>>)),
    DictGet(DictGet(item, "K_lawInfo", Dict(<<>>)), "K_effectiveDate", Str(<<>>)),
    DictGet(DictGet(item, "K_lawInfo", Dict(<<>>)), "K_revisionKindName", Str(<<>>))>>
C24_Text(item) ==
  PyStr(C24_Values(item)[1]) \o <<"_">> \o PyStr(C24_Values(item)[2]) \o <<"_">>
    \o PyStr(C24_Values(item)[3])
\* the first occurrences of the keys Key gives, and their order by
\* descending change date, entries of one date in the order given
C24_Firsts(items, Key(_)) ==
  {i \in 1..Len(items) : \A j \in 1..(i - 1) : Key(items[j]) # Key(items[i])}
C24_Date(item) == DictGet(DictGet(item, "K_articleInfo", Dict(<<>>)), "K_articleChangeDate", Str(<<>>)).v
C24_Order(items, firsts) ==
  CHOOSE order \in [1..Cardinality(firsts) -> firsts] :
    /\ \A a, b \in 1..Cardinality(firsts) : a # b => order[a] # order[b]
    /\ \A a \in 1..(Cardinality(firsts) - 1) :
         \/ StrLess(C24_Date(items[order[a + 1]]), C24_Date(items[order[a]]))
         \/ /\ C24_Date(items[order[a + 1]]) = C24_Date(items[order[a]])
            /\ order[a] < order[a + 1]
\* the header counts the entries of Key's first occurrences and the
\* entries rendered are theirs, latest change first
C24_OnePerKey(Key(_)) ==
  LET firsts == C24_Firsts(C24_History, Key)
      order == C24_Order(C24_History, firsts)
      entries == SelectSeq(retval.v, LAMBDA seg : seg.kind = "entry")
  IN /\ retval.v[1].b = <<ToString(Cardinality(firsts))>>
     /\ Len(entries) = Cardinality(firsts)
     /\ \A a \in 1..Len(entries) :
          entries[a] = HistoryEntry(C24_History[order[a]], a).val[1]
\* C24: _format_law_service_history removes duplicates by the key
\* (law serial number, effective date, revision kind), keeping the first
\* occurrence of each key: the rendered history holds exactly one entry per
\* distinct key, the total in the header is the number of entries rendered
\* (not the upstream totalCnt), and the entries are in descending order of
\* the article change date.
C24_OnePerKeyTriple == C24_Rendered => C24_OnePerKey(C24_Values)
\* C24 with the key taken as the text "{serial}_{date}_{kind}" of the three
\* values
C24_OnePerKeyText == C24_Rendered => C24_OnePerKey(C24_Text)
C24_Witness ==
  /\ C24_Rendered
  /\ Len(C24_History) = 2
  /\ C24_Text(C24_History[1]) = C24_Text(C24_History[2])
  /\ retval.v[1].b = <<"1">>
  /\ Item(Item(args.data, "LawService"), "totalCnt") = Num(2)

\* ------------------------------------------------------------------------
\* Properties of the tools that cache what they fetch
\* ------------------------------------------------------------------------
\* what _make_legislation_request returns for an empty upstream body and for
\* an empty upstream object
C26_Failure(data) == data = ErrorObject \/ data = Dict(<<>>)
\* C26: an upstream failure is never stored in the cache: when
\* _make_legislation_request returns an error object or a no-match
\* response, get_law_detail, get_law_articles_range and search_related_law
\* write nothing to the cache, so that a later call within the TTL asks the
\* upstream again instead of replaying the failure.
C26_FailureNotCached ==
  \A key \in DOMAIN files : ~C26_Failure(DictGet(files[key].content, "data", None))

\* ------------------------------------------------------------------------
\* Properties of the cache round trip
\* ------------------------------------------------------------------------
\* load_from_cache has just returned for a key whose last save went to a
\* writable directory less than CACHE_DAYS days before
C23_Case ==
  /\ call.op = "load_from_cache" /\ call.key \in DOMAIN saved
  /\ saved[call.key].written /\ call.at - saved[call.key].at < CACHE_DAYS
\* C23: cache round trip: after save_to_cache(k, d) completes with a
\* writable cache directory and JSON-serializable d, load_from_cache(k)
\* called less than 7 days later, with no save to k in between, returns a
\* value equal to d; a save to key k never changes what load_from_cache
\* returns for a different key.
C23_RoundTrip == C23_Case => call.out = saved[call.key].data
\* C23 as the code has it: the value returned is d as JSON reads it back,
\* every tuple in d having become a list; saves to other keys between the
\* save and the load change nothing
C23_RoundTripJson == C23_Case => call.out = json_dump(saved[call.key].data)
C23_Witness ==
  /\ C23_Case
  /\ saved[call.key].data = Field("a", List(<<Tuple(<<>>)>>))
  /\ call.out = Field("a", List(<<List(<<>>)>>))
  /\ call.at = saved[call.key].at + CACHE_DAYS - 1
  /\ \E k \in DOMAIN saved : k # call.key /\ saved[k].at > saved[call.key].at /\ saved[k].written

\* ------------------------------------------------------------------------
\* Properties of the attempts of search_law
\* ------------------------------------------------------------------------
\* the order of the attempts: the query, the query + 법, the query without
\* its spaces, that + 법
C22_Order(query) ==
  LET WithBeop(q) == IF EndsWith(q, <<"K_beop">>) THEN <<q>> ELSE <<q, q \o <<"K_beop">>>>
  IN WithBeop(query)
       \o (IF RemoveSpaces(query) = query THEN <<>> ELSE WithBeop(RemoveSpaces(query)))
\* the response has the law envelope
C22_Listed(http) ==
  /\ http.kind = "response" /\ IsDict(http.json) /\ HasKey(http.json, "LawSearch")
  /\ IsDict(Item(http.json, "LawSearch")) /\ HasKey(Item(http.json, "LawSearch"), "law")
C22_Laws(http) == Item(Item(http.json, "LawSearch"), "law")
C22_TotalCnt(http) == PyInt(DictGet(Item(http.json, "LawSearch"), "totalCnt", Num(0)))
\* the attempt fails: the request raises, the total is no number, or the
\* first hit is no record
C22_Fails(http) ==
  \/ http.kind # "response"
  \/ /\ C22_Listed(http)
     /\ \/ C22_TotalCnt(http).exc # ""
        \/ IsList(C22_Laws(http)) /\ Len(C22_Laws(http).v) > 0 /\ ~IsDict(C22_Laws(http).v[1])
\* the name of the first hit matches the query or the attempt
C22_Matches(query, attempt, http) ==
  /\ ~C22_Fails(http) /\ C22_Listed(http)
  /\ IsList(C22_Laws(http)) /\ Len(C22_Laws(http).v) > 0
  /\ LET law_name == DictGet(C22_Laws(http).v[1], "K_lawNameHangul", Str(<<>>))
     IN /\ IsStr(law_name) /\ law_name.v # <<>>
        /\ \/ Contains(law_name.v, query) \/ Contains(law_name.v, attempt)
           \/ RemoveSpaces(law_name.v) = RemoveSpaces(attempt)
C22_Total(http) == IF ~C22_Fails(http) /\ C22_Listed(http) THEN C22_TotalCnt(http).val ELSE 0
\* "[query -> attempt]" before the results of an attempt other than the
\* query
C22_Note(query, attempt) ==
  IF attempt # query THEN <<Seg("searched_as", query, attempt)>> ELSE <<>>
C22_WitnessFive ==
  /\ retval # None /\ args.op = "search_law"
  /\ Len(retval.v.requests) = 5
  /\ retval.v.requests[5] = <<args.query, 2>>

\* ------------------------------------------------------------------------
\* Properties of concurrent saves and loads of one cache file
\* ------------------------------------------------------------------------
\* the values save_to_cache calls were given, the entry found at the start
\* included
C27_Given == {OldData} \cup {savers[s].data : s \in {s \in Savers : savers[s].pc # "idle"}}
\* C27: with load_from_cache and save_to_cache running concurrently on one
\* key without locking, load_from_cache never raises and returns None or
\* exactly a value some save_to_cache call was given whole, never a partial
\* value and never a mixture of two writers' content; after two concurrent
\* save_to_cache calls on the key have finished, the file holds exactly one
\* of the two values.
C27_WholeValues ==
  /\ loader.pc = "done" => (loader.out = None \/ loader.out \in C27_Given)
  /\ ((\A s \in Savers : savers[s].pc = "done") /\ disk.exists)
       => \E s \in Savers : disk.tokens = Doc(savers[s].data)
\* the loader alone returns a mixture
C27_Mixture ==
  loader.pc = "done" => (loader.out = None \/ loader.out \in C27_Given)
\* C28: load_from_cache deletes a cache file only if the file it deletes
\* is expired: a fresh entry that a concurrent save_to_cache writes to the
\* key between the loader's validity check and its unlink is never
\* removed, so a completed save is not lost to a concurrent load.
C28_DeletesOnlyExpired ==
  loader.unlinked.exists => loader.unlinked.mtime <= clock - CACHE_DAYS

\* ------------------------------------------------------------------------
\* Properties of the global context
\* ------------------------------------------------------------------------
\* C21: the lock-guarded global context follows the server lifespan: while
\* the body of legislation_lifespan runs, get_global_context() returns the
\* context that lifespan made, and after legislation_lifespan has exited,
\* normally or because the initialization raised, it returns None, also
\* when a context was stored at import time; concurrent set_global_context
\* and get_global_context calls only ever observe a value that was set
\* whole.
C21_FollowsLifespan ==
  getter.pc = "returned" =>
    /\ \A r \in Runs : getter.during[r] = "body" => getter.out = Context(r)
    /\ ((\E r \in Runs : getter.during[r] \in {"exited", "failed"})
          /\ \A r \in Runs : getter.during[r] # "body") => getter.out = None
    /\ getter.out \in {None, Context("import")} \cup {Context(r) : r \in Runs}

====
